---- MODULE Spec2Model ----
(***************************************************************************)
(* A model of the resumable deployment engine of the Hyperlane SDK:        *)
(*   typescript/sdk/src/deploy/HyperlaneDeployer.ts   (HyperlaneDeployer)   *)
(*   typescript/sdk/src/core/HyperlaneCoreDeployer.ts (HyperlaneCoreDeployer)*)
(*                                                                         *)
(* The deployer is one asynchronous control flow.  deploy() walks the      *)
(* target chains; for each chain it starts a callback (deployContracts     *)
(* followed by addDeployedContracts) under runWithTimeout.  Each callback  *)
(* is a process cb[c] with a position (pc), the handler it is inside (h,   *)
(* hpc), the transaction it awaits (pending) and its locals.  Every action *)
(* is one stretch of code between two awaits on the chain client.          *)
(***************************************************************************)
EXTENDS Integers, Sequences, FiniteSets, TLC

(***************************************************************************)
(* Bounds of the model.                                                    *)
(***************************************************************************)
MaxRuns == 2        \* calls of deploy() on the same deployer, ledger carried over
MaxFaults == 1      \* chain-client calls that raise during the whole behaviour
MaxExternal == 1    \* mutations by an external actor during the whole behaviour
MaxCalls == 2       \* direct calls of deployContractFromFactory by one caller

(***************************************************************************)
(* Addresses.  Externally owned accounts come first, contracts are         *)
(* allocated after them in deployment order, per chain.                    *)
(***************************************************************************)
AddressZero == 0
Absent == 0 - 1     \* a ledger slot, an override or a result that is undefined
Signer == 1
Other == 2
FirstContract == Other + 1

eqAddress(a, b) == a = b

Chains == {1, 2, 3}

Slots == {"proxyAdmin", "mailbox", "validatorAnnounce", "testRecipient",
          "TransparentUpgradeableProxy", "interchainSecurityModule",
          "merkleTreeHook", "protocolFee"}
DeployedSlots == Slots \cup {"customHook"}
Ownables == <<"mailbox", "proxyAdmin", "validatorAnnounce", "testRecipient">>

(***************************************************************************)
(* Security-module configurations: a literal address or a structural spec. *)
(***************************************************************************)
IsmLiteral(a) == [lit |-> TRUE, addr |-> a, spec |-> 0]
IsmStructural(s) == [lit |-> FALSE, addr |-> AddressZero, spec |-> s]

(***************************************************************************)
(* On-chain state of one chain: the contracts by address.                  *)
(***************************************************************************)
NewContract(kind, owner) ==
    [kind |-> kind, owner |-> owner, impl |-> AddressZero, admin |-> AddressZero,
     init |-> FALSE, ism |-> AddressZero, hook |-> AddressZero,
     req |-> AddressZero, spec |-> 0]

NewProxy(impl, admin) ==
    [NewContract("proxy", AddressZero) EXCEPT !.impl = impl, !.admin = admin]

NewIsm(s) == [NewContract("ism", Signer) EXCEPT !.spec = s]

FreshAddress(w) == FirstContract + Cardinality(DOMAIN w.k)

hasCode(w, a) == a \in DOMAIN w.k

\* ./proxy isProxy: the admin slot of the address is populated
isProxy(w, a) == hasCode(w, a) /\ w.k[a].admin # AddressZero

\* ./proxy proxyAdmin and proxyImplementation: the admin and implementation
\* slots of the proxy
proxyAdmin(w, proxy) == IF hasCode(w, proxy) THEN w.k[proxy].admin ELSE AddressZero
proxyImplementation(w, proxy) ==
    IF hasCode(w, proxy) THEN w.k[proxy].impl ELSE AddressZero

ownerOf(w, a) == IF hasCode(w, a) THEN w.k[a].owner ELSE AddressZero

\* ism/utils moduleMatchesConfig: address equality for a literal, structural
\* equivalence for a spec
moduleMatchesConfig(w, a, cfg) ==
    IF cfg.lit THEN eqAddress(a, cfg.addr)
    ELSE hasCode(w, a) /\ w.k[a].kind = "ism" /\ w.k[a].spec = cfg.spec

(***************************************************************************)
(* State.                                                                  *)
(***************************************************************************)
VARIABLES
    world,                \* chain -> on-chain state [k: address -> contract, inert]
    cachedAddresses,      \* the address ledger: chain -> slot -> address or Absent
    deployedContracts,    \* chain -> slot -> address or Absent
    verificationInputs,   \* chain -> sequence of <<name, address>>
    recoverVerificationInputs, \* the constructor's flag: recover artifacts
    startingBlockNumbers, \* chain -> block height read by deploy() (0: not read)
    configMap,            \* chain -> target configuration
    targetChains,         \* the chains deploy() walks, in order
    deployPc,             \* position of deploy()
    chainIdx,             \* index of deploy()'s loop in targetChains
    deployError,          \* the error deploy() rejected with ("" if none)
    cb,                   \* chain -> the chain's callback (deployContracts + add)
    trace,                \* history: transactions and steps of this deploy() call
    past,                 \* history: the outcome of every earlier deploy() call
    faults,               \* chain-client calls that raised so far
    externals             \* mutations by the external actor so far

vars == <<world, cachedAddresses, deployedContracts, verificationInputs,
          recoverVerificationInputs, startingBlockNumbers, configMap,
          targetChains, deployPc, chainIdx, deployError, cb, trace, past,
          faults, externals>>

\* everything but the callbacks, the chain and the history
deployerVars == <<cachedAddresses, deployedContracts, verificationInputs,
                  recoverVerificationInputs, startingBlockNumbers, configMap>>
deployVars == <<targetChains, deployPc, chainIdx, deployError, past>>

\* the number of the deploy() call under way
runs == Len(past) + 1
envVars == <<faults, externals>>

(***************************************************************************)
(* Transactions and history events.                                        *)
(***************************************************************************)
NoTx == [kind |-> "none", to |-> AddressZero, val |-> AddressZero,
         proxy |-> AddressZero, rec |-> NewContract("none", AddressZero)]
DeployTx(rec) == [NoTx EXCEPT !.kind = "deploy", !.rec = rec]
CallTx(kind, to, val) == [NoTx EXCEPT !.kind = kind, !.to = to, !.val = val]

\* a call on a proxy by its admin (to = proxy), or on a ProxyAdmin contract
\* about a proxy
AdminTx(kind, to, proxy, val) == [CallTx(kind, to, val) EXCEPT !.proxy = proxy]

SetKinds == {"setIsm", "setHook", "setReq"}
OwnerGated == SetKinds \cup {"transfer"}

\* the calls of runIfAdmin's two actions: by the signer as the proxy's admin,
\* and through the ProxyAdmin contract the signer owns
DirectKinds == {"upgradeToAndCall", "changeAdmin"}
IndirectKinds == {"upgradeAndCall", "changeProxyAdmin"}

\* a transaction handed to the chain client by chain c's callback.  read: the
\* owner the handler read last; auth: whether the signer owns the addressed
\* contract at submission
TxEvent(c, tx, read) ==
    [ev |-> "tx", chain |-> c, kind |-> tx.kind, to |-> tx.to,
     val |-> tx.val, want |-> AddressZero, what |-> tx.rec.kind,
     read |-> read, auth |-> eqAddress(ownerOf(world[c], tx.to), Signer)]

\* a step of chain c's callback that is not a transaction: the start of a
\* reconciliation ("reconcile"), the read after a write ("reread"), ...
StepEvent(c, ev, kind, to, val, want) ==
    [ev |-> ev, chain |-> c, kind |-> kind, to |-> to,
     val |-> val, want |-> want, what |-> "", read |-> AddressZero,
     auth |-> eqAddress(ownerOf(world[c], to), Signer)]

Events(ev) == {i \in 1..Len(trace) : trace[i].ev = ev}

(***************************************************************************)
(* A callback: its position, the handler it is inside and its locals.      *)
(***************************************************************************)
Frame0 ==
    [slot |-> "", rec |-> NewContract("none", AddressZero), initArgs |-> FALSE,
     recover |-> TRUE, inited |-> FALSE,
     to |-> AddressZero, field |-> "", cfg |-> IsmLiteral(AddressZero),
     target |-> AddressZero, matches |-> FALSE, owner |-> AddressZero,
     admin |-> AddressZero, code |-> "0x", idx |-> 1, receipts |-> <<>>]

Locals0 ==
    [proxyAdmin |-> Absent, impl |-> Absent, mailbox |-> Absent,
     defaultIsm |-> Absent, defaultHook |-> Absent,
     requiredHook |-> Absent, validatorAnnounce |-> Absent,
     timelock |-> Absent, testRecipient |-> Absent,
     sent |-> FALSE, ci |-> 1, alreadyInit |-> FALSE, removed |-> FALSE]

Idle ==
    [st |-> "idle", pc |-> "", h |-> "", hpc |-> "", ret |-> "", a |-> Frame0,
     res |-> AddressZero, pending |-> NoTx, rcpt |-> AddressZero, error |-> "",
     l |-> Locals0]

Started(pc) == [Idle EXCEPT !.st = "running", !.pc = pc]

\* the callback is at caller label pc, outside any handler, awaiting nothing
At(c, pc) ==
    /\ cb[c].st = "running" /\ cb[c].h = "" /\ cb[c].pc = pc
    /\ cb[c].pending = NoTx

\* the callback is inside handler h at step hpc, awaiting nothing
In(c, h, hpc) ==
    /\ cb[c].st = "running" /\ cb[c].h = h /\ cb[c].hpc = hpc
    /\ cb[c].pending = NoTx

Call(me, h, frame, ret) ==
    [me EXCEPT !.h = h, !.hpc = "start", !.a = frame, !.ret = ret]
Return(me, v) ==
    [me EXCEPT !.h = "", !.hpc = "", !.pc = me.ret, !.res = v]
Throw(me, msg) ==
    [me EXCEPT !.st = "failed", !.error = msg, !.h = "", !.hpc = "",
               !.pending = NoTx]
Goto(me, pc) == [me EXCEPT !.pc = pc]

(***************************************************************************)
(* The chain client and the contracts behind it (external collaborators).  *)
(***************************************************************************)
MailboxInitTx(to, owner, ism, hook, req) ==
    [NoTx EXCEPT !.kind = "mailboxInitialize", !.to = to,
                 !.rec = [NewContract("mailbox", owner) EXCEPT
                              !.ism = ism, !.hook = hook, !.req = req]]

SetterOf(field) ==
    CASE field = "ism" -> "setIsm" [] field = "hook" -> "setHook"
      [] field = "req" -> "setReq"

getField(w, a, field) ==
    IF ~hasCode(w, a) THEN AddressZero
    ELSE CASE field = "ism" -> w.k[a].ism [] field = "hook" -> w.k[a].hook
           [] field = "req" -> w.k[a].req

\* The effect of an included transaction sent by the signer: the new state,
\* whether it succeeded, and the receipt (the address of a deployed contract).
\* Setters and transferOwnership are onlyOwner; a contract of an inert chain
\* accepts a setter and leaves the value as it was; the mailbox takes only a
\* contract for its module.  A proxy takes upgradeTo
\* and changeAdmin from its admin only; a ProxyAdmin contract takes them from
\* its owner, for a proxy it administers.
ApplyTx(w, tx) ==
    LET to == tx.to
        done(k) == [w |-> [w EXCEPT !.k = k], ok |-> TRUE, rcpt |-> to]
        revert == [w |-> w, ok |-> FALSE, rcpt |-> AddressZero]
    IN CASE tx.kind = "deploy" ->
              [w |-> [w EXCEPT !.k = (FreshAddress(w) :> tx.rec) @@ w.k],
               ok |-> TRUE, rcpt |-> FreshAddress(w)]
         [] tx.kind = "initialize" ->
              IF ~hasCode(w, to) \/ w.k[to].init THEN revert
              ELSE done([w.k EXCEPT ![to].init = TRUE])
         [] tx.kind = "mailboxInitialize" ->
              IF \/ ~hasCode(w, to) \/ w.k[to].init
                 \/ ~hasCode(w, tx.rec.ism) THEN revert
              ELSE done([w.k EXCEPT ![to].init = TRUE,
                                    ![to].owner = tx.rec.owner,
                                    ![to].ism = tx.rec.ism,
                                    ![to].hook = tx.rec.hook,
                                    ![to].req = tx.rec.req])
         [] tx.kind \in OwnerGated ->
              IF ~eqAddress(ownerOf(w, to), Signer) THEN revert
              ELSE IF tx.kind = "transfer"
                   THEN done([w.k EXCEPT ![to].owner = tx.val])
              ELSE IF w.inert THEN done(w.k)
              ELSE IF tx.kind = "setIsm"
                   THEN IF ~hasCode(w, tx.val) THEN revert
                        ELSE done([w.k EXCEPT ![to].ism = tx.val])
              ELSE IF tx.kind = "setHook"
                   THEN done([w.k EXCEPT ![to].hook = tx.val])
              ELSE done([w.k EXCEPT ![to].req = tx.val])
         [] tx.kind \in DirectKinds ->
              IF ~isProxy(w, to) \/ ~eqAddress(w.k[to].admin, Signer) THEN revert
              ELSE IF tx.kind = "upgradeToAndCall"
                   THEN done([w.k EXCEPT ![to].impl = tx.val])
              ELSE done([w.k EXCEPT ![to].admin = tx.val])
         [] tx.kind \in IndirectKinds ->
              IF \/ ~eqAddress(ownerOf(w, to), Signer)
                 \/ ~isProxy(w, tx.proxy)
                 \/ ~eqAddress(w.k[tx.proxy].admin, to) THEN revert
              ELSE IF tx.kind = "upgradeAndCall"
                   THEN done([w.k EXCEPT ![tx.proxy].impl = tx.val])
              ELSE done([w.k EXCEPT ![tx.proxy].admin = tx.val])

\* MultiProvider.handleDeploy / handleTx / sendTransaction: the awaited
\* transaction of chain c's callback is included; the callback resumes with
\* its receipt, or with the error of a reverted transaction.
txIncluded(c) ==
    /\ cb[c].st = "running" /\ cb[c].pending # NoTx
    /\ LET r == ApplyTx(world[c], cb[c].pending)
       IN /\ world' = [world EXCEPT ![c] = r.w]
          /\ cb' = [cb EXCEPT ![c] =
                      IF r.ok THEN [@ EXCEPT !.pending = NoTx, !.rcpt = r.rcpt]
                      ELSE Throw(@, "transaction reverted")]
    /\ UNCHANGED <<deployerVars, deployVars, envVars, trace>>

\* hands tx to the chain client and suspends the callback until txIncluded
Submit(c, me, tx) ==
    /\ cb' = [cb EXCEPT ![c] = [me EXCEPT !.pending = tx]]
    /\ trace' = Append(trace, TxEvent(c, tx, me.a.owner))

(***************************************************************************)
(* The address ledger.                                                     *)
(***************************************************************************)
\* a lookup that takes every entry of the ledger for a contract
readCacheAnyEntry(c, contractName) == cachedAddresses[c][contractName]

\* lines 575-590: the cached contract's address, or Absent for a miss
readCache(c, contractName) ==
    LET cachedAddress == cachedAddresses[c][contractName]
        hit == cachedAddress # Absent /\ cachedAddress # AddressZero
    IN IF hit THEN cachedAddress ELSE Absent

\* a write that starts the chain's entries anew
writeCacheAnew(ledger, c, contractName, address) ==
    [ledger EXCEPT ![c] = [s \in Slots |-> IF s = contractName THEN address
                                           ELSE Absent]]

\* lines 559-568
writeCache(ledger, c, contractName, address) ==
    [ledger EXCEPT ![c][contractName] = address]

addDeployedContracts(dc, c, slot, address) ==
    [dc EXCEPT ![c][slot] = address]

addVerificationArtifacts(vi, c, artifacts) ==
    [vi EXCEPT ![c] = @ \o artifacts]

(***************************************************************************)
(* Authority: runIf / runIfOwner.                                          *)
(***************************************************************************)
\* a gate that lets every caller through
runIfAnyone(address) == TRUE

\* whether fn runs: the address equals the signer's
runIf(address) == eqAddress(address, Signer)

\* runIfOwner (lines 176-182) reads the owner of the handler's contract from
\* the chain and hands it to runIf
runIfOwner(c) ==
    /\ cb[c].st = "running" /\ cb[c].hpc = "runIfOwner" /\ cb[c].pending = NoTx
    /\ cb' = [cb EXCEPT ![c] = [@ EXCEPT !.a.owner =
                                            ownerOf(world[c], cb[c].a.to),
                                        !.hpc = "runIf"]]
    /\ UNCHANGED <<world, deployerVars, deployVars, envVars, trace>>

(***************************************************************************)
(* deployContractFromFactory(chain, factory, contractName, constructorArgs,*)
(* initializeArgs, shouldRecover).  Frame: slot (contractName), rec (what   *)
(* the factory deploys), initArgs, recover.                                *)
(***************************************************************************)
DcfFrame(slot, rec) == [Frame0 EXCEPT !.slot = slot, !.rec = rec]

\* a recovery that takes every cached contract for an implementation
recoverImplementationOnly(w, contractName, cachedContract) ==
    <<(<<contractName, cachedContract>>)>>

\* lines 593-637: the artifacts (name, address) of a contract the ledger
\* handed out: its implementation's, and its own as a proxy when it is one
recoverVerificationArtifacts(w, contractName, cachedContract) ==
    LET isProxied == isProxy(w, cachedContract)
        implementation == IF isProxied
                          THEN proxyImplementation(w, cachedContract)
                          ELSE cachedContract
        implementationInput == <<contractName, implementation>>
        proxyInput == <<"TransparentUpgradeableProxy", cachedContract>>
    IN IF ~isProxied THEN <<implementationInput>>
       ELSE <<implementationInput, proxyInput>>

\* lines 331-357: a ledger hit returns the cached contract, with its
\* artifacts recovered and added when the deployer was built to, a miss
\* deploys
dcf_readCache(c) ==
    /\ In(c, "deployContractFromFactory", "start")
    /\ LET me == cb[c]
           cachedContract == IF me.a.recover THEN readCache(c, me.a.slot)
                             ELSE Absent
           ev == StepEvent(c, "readCache", me.a.rec.kind, AddressZero,
                           cachedAddresses[c][me.a.slot], cachedContract)
       IN IF cachedContract # Absent
          THEN /\ cb' = [cb EXCEPT ![c] = Return(me, cachedContract)]
               /\ trace' = Append(trace, ev)
               /\ verificationInputs' =
                      IF recoverVerificationInputs
                      THEN addVerificationArtifacts(verificationInputs, c,
                               recoverVerificationArtifacts(world[c], me.a.slot,
                                                            cachedContract))
                      ELSE verificationInputs
          ELSE /\ cb' = [cb EXCEPT ![c] = [me EXCEPT !.hpc = "deployed",
                                                     !.pending = DeployTx(me.a.rec)]]
               /\ trace' = trace \o <<ev, TxEvent(c, DeployTx(me.a.rec),
                                                    me.a.owner)>>
               /\ UNCHANGED verificationInputs
    /\ UNCHANGED <<world, cachedAddresses, deployedContracts,
                   recoverVerificationInputs, startingBlockNumbers, configMap,
                   deployVars, envVars>>

\* what contractVerifier.verifyContract may raise ("" for nothing)
VerifyErrors ==
    {""} \cup (IF faults < MaxFaults THEN {"verification failed"} ELSE {})

\* a deployContractFromFactory that lets the verifier's error through
OnVerifyErrorThrow(me, contract, error) == Throw(me, error)

\* lines 374-384: the error of the verifier is caught and logged, and the
\* contract is returned
OnVerifyError(me, contract, error) == Return(me, contract)

\* lines 359-384: initialize when initializeArgs are given, record the
\* verification artifact, try to verify, return
dcf_deployed(c) ==
    /\ In(c, "deployContractFromFactory", "deployed")
    /\ LET me == cb[c]
           contract == IF me.a.inited THEN me.a.target ELSE me.rcpt
       IN IF me.a.initArgs /\ ~me.a.inited
          THEN /\ Submit(c, [me EXCEPT !.a.inited = TRUE, !.a.target = contract],
                         CallTx("initialize", contract, AddressZero))
               /\ UNCHANGED <<verificationInputs, faults>>
          ELSE /\ verificationInputs' =
                      addVerificationArtifacts(verificationInputs, c,
                                               <<(<<me.a.slot, contract>>)>>)
               /\ \E error \in VerifyErrors :
                      IF error = ""
                      THEN /\ cb' = [cb EXCEPT ![c] = Return(me, contract)]
                           /\ trace' = trace
                           /\ faults' = faults
                      ELSE /\ cb' = [cb EXCEPT ![c] =
                                       OnVerifyError(me, contract, error)]
                           /\ trace' = Append(trace,
                                  [StepEvent(c, "verifyError", me.a.slot,
                                             contract, AddressZero, AddressZero)
                                      EXCEPT !.what = me.ret])
                           /\ faults' = faults + 1
    /\ UNCHANGED <<world, cachedAddresses, deployedContracts,
                   recoverVerificationInputs, startingBlockNumbers, configMap,
                   deployVars, externals>>

(***************************************************************************)
(* configureHook(chain, contract, targetHook, getHook, setHook).  Frame:   *)
(* to (contract), target (targetHook.address), field (the getter/setter).  *)
(***************************************************************************)
HookFrame(to, target, field) ==
    [Frame0 EXCEPT !.to = to, !.target = target, !.field = field]

\* lines 263-264: read the configured hook and compare
configureHook_read(c) ==
    /\ In(c, "configureHook", "start")
    /\ LET me == cb[c]
           configuredHook == getField(world[c], me.a.to, me.a.field)
       IN /\ cb' = [cb EXCEPT ![c] =
                      IF ~eqAddress(me.a.target, configuredHook)
                      THEN [me EXCEPT !.hpc = "runIfOwner"]
                      ELSE Return(me, Absent)]
          /\ trace' = Append(trace, StepEvent(c, "reconcile", "hook", me.a.to,
                                              configuredHook, me.a.target))
    /\ UNCHANGED <<world, deployerVars, deployVars, envVars>>

\* a configureHook that never keeps the target
NeverCustomHook(result) == FALSE

\* line 282: the target is kept as customHook when runIfOwner returned
\* nothing (Absent; the function that ran returns true, line 279)
CustomHook(result) == result = Absent

\* lines 282-284, with the result of runIfOwner
recordCustomHook(dc, c, result, targetHook) ==
    IF CustomHook(result)
    THEN addDeployedContracts(dc, c, "customHook", targetHook)
    ELSE dc

\* lines 265-272 and 282-284: the signer being the owner that was read, the
\* set transaction is sent; otherwise the target is kept as customHook
configureHook_runIf(c) ==
    /\ In(c, "configureHook", "runIf")
    /\ LET me == cb[c]
       IN IF runIf(me.a.owner)
          THEN /\ Submit(c, [me EXCEPT !.hpc = "verify"],
                         CallTx(SetterOf(me.a.field), me.a.to, me.a.target))
               /\ UNCHANGED deployedContracts
          ELSE /\ cb' = [cb EXCEPT ![c] = Return(me, Absent)]
               /\ deployedContracts' =
                      recordCustomHook(deployedContracts, c, Absent, me.a.target)
               /\ trace' = trace
    /\ UNCHANGED <<world, cachedAddresses, verificationInputs,
                   recoverVerificationInputs, startingBlockNumbers, configMap,
                   deployVars, envVars>>

\* a read after the write that accepts whatever it reads
VerifyWriteAlways(target, actual) == TRUE

\* whether the read after the write passes (lines 274 and 249)
VerifyWrite(target, actual) == eqAddress(target, actual)

\* lines 273-284: read the hook again; a mismatch raises, otherwise the
\* function returns true to runIfOwner
configureHook_verify(c) ==
    /\ In(c, "configureHook", "verify")
    /\ LET me == cb[c]
           actualHook == getField(world[c], me.a.to, me.a.field)
           verified == VerifyWrite(me.a.target, actualHook)
       IN /\ cb' = [cb EXCEPT ![c] =
                      IF ~verified THEN Throw(me, "Set hook failed")
                      ELSE Return(me, me.a.target)]
          /\ deployedContracts' =
                 IF ~verified THEN deployedContracts
                 ELSE recordCustomHook(deployedContracts, c, me.a.target,
                                       me.a.target)
          /\ trace' = Append(trace, StepEvent(c, "reread", "hook", me.a.to,
                                              actualHook, me.a.target))
    /\ UNCHANGED <<world, cachedAddresses, verificationInputs,
                   recoverVerificationInputs, startingBlockNumbers, configMap,
                   deployVars, envVars>>

(***************************************************************************)
(* configureIsm(chain, contract, config, getIsm, setIsm).  Frame: to       *)
(* (contract), cfg (config), target (targetIsm), matches.                  *)
(***************************************************************************)
IsmFrame(to, cfg) == [Frame0 EXCEPT !.to = to, !.cfg = cfg, !.field = "ism"]

\* lines 216-241: read the configured module; a literal is compared by
\* address; for a structural config the match is asked of moduleMatchesConfig
\* and ismFactory.deploy is called, whatever the answer
configureIsm_read(c) ==
    /\ In(c, "configureIsm", "start")
    /\ LET me == cb[c]
           config == me.a.cfg
           configuredIsm == getField(world[c], me.a.to, "ism")
           ev == StepEvent(c, "reconcile", "ism", me.a.to, configuredIsm,
                           config.addr)
       IN IF config.lit
          THEN /\ cb' = [cb EXCEPT ![c] =
                           IF eqAddress(configuredIsm, config.addr)
                           THEN Return(me, Absent)
                           ELSE [me EXCEPT !.a.target = config.addr,
                                           !.hpc = "runIfOwner"]]
               /\ trace' = Append(trace, ev)
          ELSE /\ cb' = [cb EXCEPT ![c] =
                           [me EXCEPT !.a.matches =
                                          moduleMatchesConfig(world[c],
                                                              configuredIsm, config),
                                      !.hpc = "deployed",
                                      !.pending = DeployTx(NewIsm(config.spec))]]
               /\ trace' = trace \o <<ev, TxEvent(c, DeployTx(NewIsm(config.spec)),
                                                    me.a.owner)>>
    /\ UNCHANGED <<world, deployerVars, deployVars, envVars>>

\* lines 239-242: targetIsm is the deployed module; nothing more on a match
configureIsm_deployed(c) ==
    /\ In(c, "configureIsm", "deployed")
    /\ LET me == cb[c]
       IN cb' = [cb EXCEPT ![c] =
                   IF ~me.a.matches
                   THEN [me EXCEPT !.a.target = me.rcpt, !.hpc = "runIfOwner"]
                   ELSE Return(me, Absent)]
    /\ UNCHANGED <<world, deployerVars, deployVars, envVars, trace>>

\* lines 243-248: the signer being the owner that was read, the set
\* transaction is sent
configureIsm_runIf(c) ==
    /\ In(c, "configureIsm", "runIf")
    /\ LET me == cb[c]
       IN IF runIf(me.a.owner)
          THEN Submit(c, [me EXCEPT !.hpc = "verify"],
                      CallTx("setIsm", me.a.to, me.a.target))
          ELSE /\ cb' = [cb EXCEPT ![c] = Return(me, Absent)]
               /\ trace' = trace
    /\ UNCHANGED <<world, deployerVars, deployVars, envVars>>

\* lines 249-251: read the module again; a mismatch raises
configureIsm_verify(c) ==
    /\ In(c, "configureIsm", "verify")
    /\ LET me == cb[c]
           actualIsm == getField(world[c], me.a.to, "ism")
       IN /\ cb' = [cb EXCEPT ![c] =
                      IF ~VerifyWrite(me.a.target, actualIsm)
                      THEN Throw(me, "Set ISM failed")
                      ELSE Return(me, me.a.target)]
          /\ trace' = Append(trace, StepEvent(c, "reread", "ism", me.a.to,
                                              actualIsm, me.a.target))
    /\ UNCHANGED <<world, deployerVars, deployVars, envVars>>

(***************************************************************************)
(* transferOwnershipOfContracts(chain, config, ownables).  The ownables    *)
(* are the callback's locals named by Ownables, in that order; frame: idx  *)
(* (the loop's position), target (owner), receipts (the receipts kept so   *)
(* far, each the address of the contract it is about; the frame keeps the  *)
(* returned list, res its length).                                         *)
(***************************************************************************)
\* a target that is the global owner for every contract
OwnerTargetGlobal(config, contractName) == config.owner

\* line 700: config.ownerOverrides?.[contractName] ?? config.owner
OwnerTarget(config, contractName) ==
    IF config.ownerOverrides[contractName] # Absent
    THEN config.ownerOverrides[contractName]
    ELSE config.owner

\* a comparison that finds every owner in need of a transfer
AlwaysTransfer(current, owner) == TRUE

\* line 701
NeedsTransfer(current, owner) == ~eqAddress(current, owner)

\* lines 693-702: the next ownable; its owner is read and compared
transferOwnership_next(c) ==
    /\ In(c, "transferOwnershipOfContracts", "start")
    /\ LET me == cb[c]
           i == me.a.idx
           contractName == Ownables[i]
           ownable == me.l[contractName]
           current == ownerOf(world[c], ownable)
           owner == OwnerTarget(configMap[c], contractName)
           continue == [me EXCEPT !.a.idx = i + 1]
       IN IF i > Len(Ownables)
          THEN /\ cb' = [cb EXCEPT ![c] = Return(me, Len(me.a.receipts))]
               /\ trace' = trace
          ELSE IF ownable = Absent
          THEN /\ cb' = [cb EXCEPT ![c] = continue]
               /\ trace' = trace
          ELSE /\ cb' = [cb EXCEPT ![c] =
                           IF NeedsTransfer(current, owner)
                           THEN [me EXCEPT !.a.to = ownable, !.a.target = owner,
                                           !.hpc = "runIfOwner"]
                           ELSE continue]
               /\ trace' = Append(trace, StepEvent(c, "reconcile", "owner",
                                                   ownable, current, owner))
    /\ UNCHANGED <<world, deployerVars, deployVars, envVars>>

\* lines 703-714: the signer being the owner that was read, transferOwnership
\* is sent
transferOwnership_runIf(c) ==
    /\ In(c, "transferOwnershipOfContracts", "runIf")
    /\ LET me == cb[c]
       IN IF runIf(me.a.owner)
          THEN Submit(c, [me EXCEPT !.hpc = "sent"],
                      CallTx("transfer", me.a.to, me.a.target))
          ELSE /\ cb' = [cb EXCEPT ![c] =
                           [me EXCEPT !.a.idx = @ + 1, !.hpc = "start"]]
               /\ trace' = trace
    /\ UNCHANGED <<world, deployerVars, deployVars, envVars>>

\* line 715: the receipt is kept
transferOwnership_sent(c) ==
    /\ In(c, "transferOwnershipOfContracts", "sent")
    /\ cb' = [cb EXCEPT ![c] = [@ EXCEPT !.a.idx = @ + 1,
                                        !.a.receipts = Append(@, cb[c].rcpt),
                                        !.hpc = "start"]]
    /\ UNCHANGED <<world, deployerVars, deployVars, envVars, trace>>

(***************************************************************************)
(* runIfAdmin(chain, proxy, signerAdminFn, proxyAdminOwnerFn) and its two   *)
(* callers, changeAdmin(chain, proxy, admin) and upgradeAndInitialize(      *)
(* chain, proxy, implementation, initData).  Frame: to (proxy), target (the *)
(* wanted admin or implementation), admin and code (what runIfAdmin read),  *)
(* owner (the owner of the admin contract).                                 *)
(***************************************************************************)
AdminFrame(proxy, target) == [Frame0 EXCEPT !.to = proxy, !.target = target]

\* provider.getCode: '0x' for an address without code
getCode(w, a) == IF hasCode(w, a) THEN "0x60" ELSE "0x"

\* lines 446-453: the admin of the proxy is read; nothing to do when it is
\* the wanted one
changeAdmin_read(c) ==
    /\ In(c, "changeAdmin", "start")
    /\ LET me == cb[c]
           actualAdmin == proxyAdmin(world[c], me.a.to)
       IN /\ cb' = [cb EXCEPT ![c] =
                      IF eqAddress(actualAdmin, me.a.target)
                      THEN Return(me, Absent)
                      ELSE [me EXCEPT !.hpc = "runIfAdmin"]]
          /\ trace' = Append(trace, StepEvent(c, "reconcile", "admin", me.a.to,
                                              actualAdmin, me.a.target))
    /\ UNCHANGED <<world, deployerVars, deployVars, envVars>>

\* lines 479-486: the implementation of the proxy is read; nothing to do
\* when it is the wanted one
upgradeAndInitialize_read(c) ==
    /\ In(c, "upgradeAndInitialize", "start")
    /\ LET me == cb[c]
           current == proxyImplementation(world[c], me.a.to)
       IN /\ cb' = [cb EXCEPT ![c] =
                      IF eqAddress(me.a.target, current)
                      THEN Return(me, Absent)
                      ELSE [me EXCEPT !.hpc = "runIfAdmin"]]
          /\ trace' = Append(trace, StepEvent(c, "reconcile", "implementation",
                                              me.a.to, current, me.a.target))
    /\ UNCHANGED <<world, deployerVars, deployVars, envVars>>

\* runIfAdmin lines 190-193: the admin of the proxy is read
runIfAdmin_proxyAdmin(c) ==
    /\ cb[c].st = "running" /\ cb[c].hpc = "runIfAdmin" /\ cb[c].pending = NoTx
    /\ cb' = [cb EXCEPT ![c] = [@ EXCEPT !.a.admin =
                                            proxyAdmin(world[c], cb[c].a.to),
                                        !.hpc = "getCode"]]
    /\ UNCHANGED <<world, deployerVars, deployVars, envVars, trace>>

\* a runIfAdmin that takes every admin for an account
NeverProxyAdminContract(code) == FALSE

\* runIfAdmin line 195: the admin is a ProxyAdmin contract when it has code
IsProxyAdminContract(code) == code # "0x"

\* runIfAdmin lines 194-206: the code at the admin is read; with code the
\* owner of the ProxyAdmin contract decides (runIfOwner), without code the
\* admin itself is the address runIf compares
runIfAdmin_getCode(c) ==
    /\ cb[c].st = "running" /\ cb[c].hpc = "getCode" /\ cb[c].pending = NoTx
    /\ LET me == cb[c]
           admin == me.a.admin
           code == getCode(world[c], admin)
           ev == [StepEvent(c, "runIfAdmin", me.h, me.a.to, admin, me.a.target)
                     EXCEPT !.what = IF hasCode(world[c], admin)
                                     THEN "contract" ELSE "account",
                            !.auth = eqAddress(ownerOf(world[c], admin), Signer)]
       IN /\ cb' = [cb EXCEPT ![c] =
                      IF IsProxyAdminContract(code)
                      THEN [me EXCEPT !.a.code = code, !.hpc = "ownerOfAdmin"]
                      ELSE [me EXCEPT !.a.code = code, !.a.owner = admin,
                                      !.hpc = "runIf"]]
          /\ trace' = Append(trace, ev)
    /\ UNCHANGED <<world, deployerVars, deployVars, envVars>>

\* runIfAdmin lines 197-202 with runIfOwner line 181: the owner of the
\* ProxyAdmin contract is read
runIfAdmin_owner(c) ==
    /\ cb[c].st = "running" /\ cb[c].hpc = "ownerOfAdmin" /\ cb[c].pending = NoTx
    /\ cb' = [cb EXCEPT ![c] = [@ EXCEPT !.a.owner =
                                            ownerOf(world[c], cb[c].a.admin),
                                        !.hpc = "runIf"]]
    /\ UNCHANGED <<world, deployerVars, deployVars, envVars, trace>>

\* the transaction of the action runIfAdmin chose: proxyAdminOwnerFn on the
\* ProxyAdmin contract (lines 465-467, 500-507) or signerAdminFn on the proxy
\* (lines 464, 494-499)
AdminAction(h, a) ==
    IF IsProxyAdminContract(a.code)
    THEN AdminTx(IF h = "changeAdmin" THEN "changeProxyAdmin"
                 ELSE "upgradeAndCall", a.admin, a.to, a.target)
    ELSE AdminTx(IF h = "changeAdmin" THEN "changeAdmin"
                 ELSE "upgradeToAndCall", a.to, a.to, a.target)

\* what changeAdmin and upgradeAndInitialize hand to their caller: they are
\* Promise<void>, the result of runIfAdmin is dropped (lines 458, 491)
AdminResult(result) == Absent

\* runIf lines 165-173 under runIfAdmin: the action runs when the address
\* is the signer's; otherwise nothing is sent and the caller goes on
runIfAdmin_runIf(c) ==
    /\ cb[c].h \in {"changeAdmin", "upgradeAndInitialize"}
    /\ In(c, cb[c].h, "runIf")
    /\ LET me == cb[c]
       IN IF runIf(me.a.owner)
          THEN Submit(c, [me EXCEPT !.hpc = "sent"], AdminAction(me.h, me.a))
          ELSE /\ cb' = [cb EXCEPT ![c] = Return(me, AdminResult(Absent))]
               /\ trace' = trace
    /\ UNCHANGED <<world, deployerVars, deployVars, envVars>>

\* the transaction of the action was included (handleTx); the caller goes on
runIfAdmin_sent(c) ==
    /\ cb[c].h \in {"changeAdmin", "upgradeAndInitialize"}
    /\ In(c, cb[c].h, "sent")
    /\ cb' = [cb EXCEPT ![c] = Return(@, AdminResult(cb[c].rcpt))]
    /\ UNCHANGED <<world, deployerVars, deployVars, envVars, trace>>

(***************************************************************************)
(* HyperlaneCoreDeployer.deployContracts and what it calls, as the labels  *)
(* of the callback.                                                        *)
(***************************************************************************)
\* a deployContracts that skips no chain
NeverSkipChain(config) == FALSE

\* HyperlaneCoreDeployer.ts line 225: chains configured to be removed
SkipChain(config) == config.remove

\* HyperlaneCoreDeployer.ts lines 225-230: a removed chain is skipped;
\* otherwise deployContract(chain, 'proxyAdmin', [])
dc_proxyAdmin(c) ==
    /\ At(c, "deployContracts")
    /\ cb' = [cb EXCEPT ![c] =
                IF SkipChain(configMap[c])
                THEN Goto([@ EXCEPT !.l.removed = TRUE], "return")
                ELSE Call(@, "deployContractFromFactory",
                          DcfFrame("proxyAdmin", NewContract("proxyAdmin", Signer)),
                          "deployMailbox")]
    /\ UNCHANGED <<world, deployerVars, deployVars, envVars, trace>>

\* deployContractWithName's writeCache of the proxyAdmin (line 418), then
\* deployMailbox -> deployProxiedContract -> deployContractWithName (652)
dm_deployProxiedContract(c) ==
    /\ At(c, "deployMailbox")
    /\ cachedAddresses' = writeCache(cachedAddresses, c, "proxyAdmin", cb[c].res)
    /\ cb' = [cb EXCEPT ![c] =
                Call([@ EXCEPT !.l.proxyAdmin = cb[c].res],
                     "deployContractFromFactory",
                     DcfFrame("mailbox", NewContract("mailbox", AddressZero)),
                     "deployProxy")]
    /\ UNCHANGED <<world, deployedContracts, verificationInputs,
                   recoverVerificationInputs, startingBlockNumbers, configMap,
                   deployVars, envVars, trace>>

\* constructor arguments that leave the implementation out
proxyConstructorArgsAdminOnly(implementation, admin) ==
    NewProxy(AddressZero, admin)

\* ./proxy proxyConstructorArgs (lines 527-531): the proxy is constructed
\* over the implementation, with the proxyAdmin handed in as its admin
proxyConstructorArgs(implementation, admin) ==
    NewProxy(implementation, admin)

\* a deployProxy that wraps whatever address it is handed
DeployProxyNeverProxied(w, implementation) == FALSE

\* deployProxy lines 518-525: whether the implementation is already a proxy
DeployProxyIsProxied(w, implementation) == isProxy(w, implementation)

\* the implementation is bound (line 418); deployProxy (lines 518-537): an
\* address that is a proxy is returned as it is and bound (line 667),
\* otherwise a TransparentUpgradeableProxy is deployed
dpc_deployProxy(c) ==
    /\ At(c, "deployProxy")
    /\ LET me == cb[c]
           implementation == me.res
           bound == [me EXCEPT !.l.impl = implementation]
       IN /\ cachedAddresses' =
                 writeCache(cachedAddresses, c, "mailbox", implementation)
          /\ cb' = [cb EXCEPT ![c] =
                      IF DeployProxyIsProxied(world[c], implementation)
                      THEN Goto([bound EXCEPT !.l.mailbox = implementation],
                                "defaultIsm")
                      ELSE Call(bound, "deployContractFromFactory",
                                DcfFrame("TransparentUpgradeableProxy",
                                         proxyConstructorArgs(implementation,
                                                              me.l.proxyAdmin)),
                                "writeCache")]
    /\ UNCHANGED <<world, deployedContracts, verificationInputs,
                   recoverVerificationInputs, startingBlockNumbers, configMap,
                   deployVars, envVars, trace>>

\* a deployProxiedContract that leaves the slot as deployContractWithName
\* bound it
writeCacheImplementation(ledger, c, contractName, address) == ledger

\* line 667: this.writeCache(chain, contractName, contract.address)
writeCacheProxy(ledger, c, contractName, address) ==
    writeCache(ledger, c, contractName, address)

\* deployProxiedContract lines 667-668: the slot is bound to the proxy
dpc_writeCache(c) ==
    /\ At(c, "writeCache")
    /\ cachedAddresses' =
           writeCacheProxy(cachedAddresses, c, "mailbox", cb[c].res)
    /\ cb' = [cb EXCEPT ![c] = Goto([@ EXCEPT !.l.mailbox = cb[c].res],
                                    "defaultIsm")]
    /\ UNCHANGED <<world, deployedContracts, verificationInputs,
                   recoverVerificationInputs, startingBlockNumbers, configMap,
                   deployVars, envVars, trace>>

\* deployMailbox lines 73-89: the default module is read and matched against
\* the configuration; on a mismatch deployIsm deploys one (ismFactory.deploy
\* returns the address of a literal configuration as it is)
dm_defaultIsm(c) ==
    /\ At(c, "defaultIsm")
    /\ LET me == cb[c]
           config == configMap[c].defaultIsm
           defaultIsm == getField(world[c], me.l.mailbox, "ism")
           matches == moduleMatchesConfig(world[c], defaultIsm, config)
           found == IF matches THEN defaultIsm ELSE config.addr
       IN IF matches \/ config.lit
          THEN /\ cb' = [cb EXCEPT ![c] =
                           Goto([me EXCEPT !.l.defaultIsm = found], "defaultHook")]
               /\ cachedAddresses' =
                      writeCache(cachedAddresses, c, "interchainSecurityModule",
                                 found)
               /\ trace' = trace
          ELSE /\ Submit(c, Goto(me, "deployIsm"), DeployTx(NewIsm(config.spec)))
               /\ UNCHANGED cachedAddresses
    /\ UNCHANGED <<world, deployedContracts, verificationInputs,
                   recoverVerificationInputs, startingBlockNumbers, configMap,
                   deployVars, envVars>>

\* deployIsm lines 201-207 and deployMailbox line 89
dm_deployIsm(c) ==
    /\ At(c, "deployIsm")
    /\ cb' = [cb EXCEPT ![c] = Goto([@ EXCEPT !.l.defaultIsm = cb[c].rcpt],
                                    "defaultHook")]
    /\ deployedContracts' =
           addDeployedContracts(deployedContracts, c, "interchainSecurityModule",
                                cb[c].rcpt)
    /\ cachedAddresses' =
           writeCache(cachedAddresses, c, "interchainSecurityModule", cb[c].rcpt)
    /\ UNCHANGED <<world, verificationInputs, recoverVerificationInputs,
                   startingBlockNumbers, configMap, deployVars, envVars,
                   trace>>

\* the two hooks of deployMailbox (lines 93-105): the label, the ledger slot
\* of the hook's type, the local it is kept in and the label that follows
HookSteps ==
    [defaultHook |-> [slot |-> "merkleTreeHook", next |-> "requiredHook"],
     requiredHook |-> [slot |-> "protocolFee", next |-> "initialize"]]

\* deployHook lines 183-187: hookDeployer.deployContracts reuses the hook its
\* ledger holds, or deploys it
deployHook_start(c) ==
    /\ \E pc \in DOMAIN HookSteps :
         /\ At(c, pc) /\ ~cb[c].l.sent
         /\ LET me == cb[c]
                cached == readCache(c, HookSteps[pc].slot)
            IN IF cached # Absent
               THEN /\ cb' = [cb EXCEPT ![c] =
                                Goto([me EXCEPT !.l[pc] = cached],
                                     HookSteps[pc].next)]
                    /\ deployedContracts' =
                           addDeployedContracts(deployedContracts, c,
                                                HookSteps[pc].slot, cached)
                    /\ trace' = trace
               ELSE /\ Submit(c, [me EXCEPT !.l.sent = TRUE],
                              DeployTx(NewContract("hook", Signer)))
                    /\ UNCHANGED deployedContracts
    /\ UNCHANGED <<world, cachedAddresses, verificationInputs,
                   recoverVerificationInputs, startingBlockNumbers, configMap,
                   deployVars, envVars>>

\* deployHook lines 188-193: the deployed hook is added and returned
deployHook_done(c) ==
    /\ \E pc \in DOMAIN HookSteps :
         /\ At(c, pc) /\ cb[c].l.sent
         /\ cb' = [cb EXCEPT ![c] =
                     Goto([@ EXCEPT !.l[pc] = cb[c].rcpt, !.l.sent = FALSE],
                          HookSteps[pc].next)]
         /\ cachedAddresses' =
                writeCache(cachedAddresses, c, HookSteps[pc].slot, cb[c].rcpt)
         /\ deployedContracts' =
                addDeployedContracts(deployedContracts, c, HookSteps[pc].slot,
                                     cb[c].rcpt)
    /\ UNCHANGED <<world, verificationInputs, recoverVerificationInputs,
                   startingBlockNumbers, configMap, deployVars, envVars,
                   trace>>

\* why the mailbox reverts initialize(owner, defaultIsm, ...) ("": it does
\* not): it is initialized, or the module is no contract
InitializeRevert(w, mailbox, defaultIsm) ==
    IF hasCode(w, mailbox) /\ w.k[mailbox].init THEN "already initialized"
    ELSE IF ~hasCode(w, defaultIsm) THEN "default ISM not contract"
    ELSE ""

\* the message of what the initialize call of deployMailbox may raise (""
\* for nothing): a revert comes with its reason or, from a chain client that
\* does not decode it, with the selector of Error(string) only; otherwise the
\* chain client may fail
InitializeErrors(w, mailbox, defaultIsm) ==
    LET reason == InitializeRevert(w, mailbox, defaultIsm)
    IN IF reason = "already initialized" THEN {reason}
       ELSE IF reason # "" THEN {reason, "Reverted 0x08c379a"}
       ELSE {""} \cup (IF faults < MaxFaults THEN {"network error"} ELSE {})

\* deployMailbox lines 121-128: the errors the catch block does not rethrow
AlreadyInitialized(message) ==
    message \in {"already initialized", "Reverted 0x08c379a"}

\* a deployContracts that goes from the mailbox to the ownership transfer
AfterDeployMailboxTransfer == "transferOwnership"

\* deployContracts lines 232-234: deployMailbox is followed by
\* deployValidatorAnnounce
AfterDeployMailbox == "deployValidatorAnnounce"

\* deployMailbox lines 108-132: initialize the mailbox; an error that says
\* "already initialized" switches to reconciliation, any other is rethrown
dm_initialize(c) ==
    /\ At(c, "initialize")
    /\ \E e \in InitializeErrors(world[c], cb[c].l.mailbox, cb[c].l.defaultIsm) :
         LET me == cb[c]
             reason == InitializeRevert(world[c], me.l.mailbox, me.l.defaultIsm)
         IN IF e = ""
            THEN /\ Submit(c, Goto(me, AfterDeployMailbox),
                           MailboxInitTx(me.l.mailbox, configMap[c].owner,
                                         me.l.defaultIsm, me.l.defaultHook,
                                         me.l.requiredHook))
                 /\ UNCHANGED faults
            ELSE /\ cb' = [cb EXCEPT ![c] =
                             IF AlreadyInitialized(e)
                             THEN Goto([me EXCEPT !.l.alreadyInit = TRUE],
                                       "configure")
                             ELSE Throw(me, e)]
                 /\ faults' = IF e = "network error" THEN faults + 1 ELSE faults
                 /\ trace' = Append(trace,
                                    [StepEvent(c, "initializeError", e,
                                               me.l.mailbox, AddressZero,
                                               AddressZero)
                                        EXCEPT !.what = IF reason = "" THEN e
                                                        ELSE reason])
    /\ UNCHANGED <<world, deployerVars, deployVars, externals>>

\* a catch block that leaves the module alone, and one that starts with it
CatchSequenceNoIsm == <<"defaultHook", "requiredHook">>
CatchSequenceIsmFirst == <<"defaultIsm", "defaultHook", "requiredHook">>

\* deployMailbox lines 135-160: the reconciliations of the catch block, in
\* the order they are called
CatchSequence == <<"defaultHook", "requiredHook", "defaultIsm">>

\* the reconciliation named by its target is called on the mailbox
dm_configure(c) ==
    /\ At(c, "configure")
    /\ LET me == cb[c]
           i == me.l.ci
           next == [me EXCEPT !.l.ci = i + 1]
           what == CatchSequence[i]
       IN cb' = [cb EXCEPT ![c] =
                   IF i > Len(CatchSequence)
                   THEN Goto(me, AfterDeployMailbox)
                   ELSE IF what = "defaultIsm"
                   THEN Call(next, "configureIsm",
                             IsmFrame(me.l.mailbox, IsmLiteral(me.l.defaultIsm)),
                             "configure")
                   ELSE Call(next, "configureHook",
                             HookFrame(me.l.mailbox, me.l[what],
                                       IF what = "defaultHook" THEN "hook"
                                       ELSE "req"),
                             "configure")]
    /\ UNCHANGED <<world, deployerVars, deployVars, envVars, trace>>

\* deployContracts lines 234-237: deployValidatorAnnounce -> deployContract
dc_deployValidatorAnnounce(c) ==
    /\ At(c, "deployValidatorAnnounce")
    /\ cb' = [cb EXCEPT ![c] =
                Call(@, "deployContractFromFactory",
                     DcfFrame("validatorAnnounce",
                              NewContract("validatorAnnounce", Signer)),
                     "upgrade")]
    /\ UNCHANGED <<world, deployerVars, deployVars, envVars, trace>>

\* the validatorAnnounce is bound (line 418); deployContracts lines 239-243:
\* with upgrade parameters deployTimelock hands a TimelockController to
\* handleDeploy (HyperlaneDeployer.ts lines 546-556), without the ledger
dc_upgrade(c) ==
    /\ At(c, "upgrade")
    /\ cachedAddresses' =
           writeCache(cachedAddresses, c, "validatorAnnounce", cb[c].res)
    /\ LET me == [cb[c] EXCEPT !.l.validatorAnnounce = cb[c].res]
       IN IF configMap[c].upgrade
          THEN Submit(c, Goto(me, "timelock"),
                      DeployTx(NewContract("timelock", AddressZero)))
          ELSE /\ cb' = [cb EXCEPT ![c] = Goto(me, "deployTestRecipient")]
               /\ trace' = trace
    /\ UNCHANGED <<world, deployedContracts, verificationInputs,
                   recoverVerificationInputs, startingBlockNumbers, configMap,
                   deployVars, envVars>>

\* deployContracts lines 244-247: the timelock becomes the proxyAdmin's
\* owner override
dc_timelock(c) ==
    /\ At(c, "timelock")
    /\ configMap' = [configMap EXCEPT ![c].ownerOverrides.proxyAdmin = cb[c].rcpt]
    /\ cb' = [cb EXCEPT ![c] = Goto([@ EXCEPT !.l.timelock = cb[c].rcpt],
                                    "deployTestRecipient")]
    /\ UNCHANGED <<world, cachedAddresses, deployedContracts,
                   verificationInputs, recoverVerificationInputs,
                   startingBlockNumbers, deployVars, envVars, trace>>

\* deployTestRecipient lines 214-216: the TestRecipientDeployer reuses the
\* test recipient its ledger holds, or deploys it
deployTestRecipient_start(c) ==
    /\ At(c, "deployTestRecipient") /\ ~cb[c].l.sent
    /\ LET me == cb[c]
           cached == readCache(c, "testRecipient")
       IN IF cached # Absent
          THEN /\ cb' = [cb EXCEPT ![c] =
                           Goto([me EXCEPT !.l.testRecipient = cached],
                                "transferOwnership")]
               /\ deployedContracts' =
                      addDeployedContracts(deployedContracts, c, "testRecipient",
                                           cached)
               /\ trace' = trace
          ELSE /\ Submit(c, [me EXCEPT !.l.sent = TRUE],
                         DeployTx(NewContract("testRecipient", Signer)))
               /\ UNCHANGED deployedContracts
    /\ UNCHANGED <<world, cachedAddresses, verificationInputs,
                   recoverVerificationInputs, startingBlockNumbers, configMap,
                   deployVars, envVars>>

\* deployTestRecipient lines 217-218
deployTestRecipient_done(c) ==
    /\ At(c, "deployTestRecipient") /\ cb[c].l.sent
    /\ cb' = [cb EXCEPT ![c] =
                Goto([@ EXCEPT !.l.testRecipient = cb[c].rcpt, !.l.sent = FALSE],
                     "transferOwnership")]
    /\ cachedAddresses' =
           writeCache(cachedAddresses, c, "testRecipient", cb[c].rcpt)
    /\ deployedContracts' =
           addDeployedContracts(deployedContracts, c, "testRecipient", cb[c].rcpt)
    /\ UNCHANGED <<world, verificationInputs, recoverVerificationInputs,
                   startingBlockNumbers, configMap, deployVars, envVars,
                   trace>>

\* deployContracts lines 255-262
dc_transferOwnership(c) ==
    /\ At(c, "transferOwnership")
    /\ cb' = [cb EXCEPT ![c] =
                Call(@, "transferOwnershipOfContracts", Frame0, "return")]
    /\ UNCHANGED <<world, deployerVars, deployVars, envVars, trace>>

\* deployContracts line 264 (or 227) returns; the callback of deploy() adds
\* the contracts (HyperlaneDeployer.ts lines 127-128 and 139-142) and ends
dc_return(c) ==
    /\ At(c, "return")
    /\ LET me == cb[c]
       IN deployedContracts' =
            [deployedContracts EXCEPT ![c] =
               IF me.l.removed THEN @
               ELSE [s \in DeployedSlots |->
                       IF s \in {"mailbox", "proxyAdmin", "validatorAnnounce",
                                 "testRecipient"}
                       THEN me.l[s] ELSE @[s]]]
    /\ cb' = [cb EXCEPT ![c].st = "done"]
    /\ UNCHANGED <<world, cachedAddresses, verificationInputs,
                   recoverVerificationInputs, startingBlockNumbers, configMap,
                   deployVars, envVars, trace>>

(***************************************************************************)
(* deploy(configMap): the loop over the target chains.                     *)
(***************************************************************************)
Chain == targetChains[chainIdx]

\* line 116 and lines 117-122: the next target chain, if any, and the lookup
\* of the signer; line 131 when there is none
deploy_next ==
    /\ deployPc = "loop"
    /\ deployPc' = IF chainIdx > Len(targetChains) THEN "returned"
                   ELSE "getBlockNumber"
    /\ trace' = IF chainIdx > Len(targetChains)
                THEN Append(trace, [ev |-> "returned", chain |-> 0,
                                    kind |-> "", to |-> AddressZero,
                                    val |-> AddressZero, want |-> AddressZero,
                                    what |-> "", read |-> AddressZero,
                                    auth |-> FALSE])
                ELSE trace
    /\ UNCHANGED <<world, deployerVars, targetChains, chainIdx, deployError,
                   past, envVars, cb>>

\* lines 123-126: the block number is read and the chain's callback is
\* started under runWithTimeout; deploy() awaits it
deploy_getBlockNumber ==
    /\ deployPc = "getBlockNumber"
    /\ startingBlockNumbers' =
           [startingBlockNumbers EXCEPT ![Chain] =
                Cardinality(DOMAIN world[Chain].k) + 1]
    /\ cb' = [cb EXCEPT ![Chain] = Started("deployContracts")]
    /\ deployPc' = "await"
    /\ UNCHANGED <<world, cachedAddresses, deployedContracts,
                   verificationInputs, recoverVerificationInputs, configMap,
                   targetChains, chainIdx, deployError, past, envVars, trace>>

\* a loop that records the error and goes on with the next chain
OnErrorContinue(idx, error) == [pc |-> "loop", idx |-> idx + 1, error |-> error]

\* lines 116-130 hold no try: an error raised under runWithTimeout leaves
\* the loop and rejects deploy()
OnError(idx, error) == [pc |-> "rejected", idx |-> idx, error |-> error]

\* lines 126-130: the callback has settled; deploy() goes on with the next
\* chain or rejects with the callback's error
deploy_settled ==
    /\ deployPc = "await"
    /\ cb[Chain].st \in {"done", "failed"}
    /\ LET to == IF cb[Chain].st = "done"
                 THEN [pc |-> "loop", idx |-> chainIdx + 1, error |-> ""]
                 ELSE OnError(chainIdx, cb[Chain].error)
       IN /\ deployPc' = to.pc
          /\ chainIdx' = to.idx
          /\ deployError' = to.error
    /\ UNCHANGED <<world, deployerVars, targetChains, past, envVars, cb, trace>>

\* runWithTimeout: the budget runs out while the callback is pending;
\* deploy() receives the timeout error.  The callback is a plain async
\* function (lines 126-129) that was handed no means of cancellation: it
\* stays where it is and goes on from its next await.
runWithTimeout_timeout ==
    /\ deployPc = "await"
    /\ cb[Chain].st = "running"
    /\ LET to == OnError(chainIdx, "timeout")
       IN /\ deployPc' = to.pc
          /\ chainIdx' = to.idx
          /\ deployError' = to.error
    /\ trace' = Append(trace, StepEvent(Chain, "timeout", "", AddressZero,
                                        AddressZero, AddressZero))
    /\ UNCHANGED <<world, deployerVars, targetChains, past, envVars, cb>>

\* what is kept of a deploy() call that ended: whether it returned and what
\* it deployed
Outcome ==
    [returned |-> deployPc = "returned",
     deployed |-> {trace[i].what : i \in Events("tx")} \ {"none"}]

\* a new deployer is built, seeded with the ledger of the last one
\* (cacheAddressesMap, lines 91-93), and deploy() is called again
Redeploy ==
    /\ deployPc \in {"returned", "rejected"}
    /\ runs < MaxRuns
    /\ \A c \in Chains : cb[c].st # "running"
    /\ past' = Append(past, Outcome)
    /\ trace' = <<>>
    /\ deployPc' = "loop"
    /\ chainIdx' = 1
    /\ deployError' = ""
    /\ cb' = [c \in Chains |-> Idle]
    /\ deployedContracts' = [c \in Chains |-> [s \in DeployedSlots |-> Absent]]
    /\ verificationInputs' = [c \in Chains |-> <<>>]
    /\ startingBlockNumbers' = [c \in Chains |-> 0]
    /\ UNCHANGED <<world, cachedAddresses, recoverVerificationInputs, configMap,
                   targetChains, envVars>>

(***************************************************************************)
(* The environment.                                                        *)
(***************************************************************************)
\* a call of the chain client raises inside chain c's callback (the
\* callback of a removed chain calls none)
ClientError(c) ==
    /\ cb[c].st = "running"
    /\ cb[c].pc # "return"
    /\ ~configMap[c].remove
    /\ faults < MaxFaults
    /\ faults' = faults + 1
    /\ cb' = [cb EXCEPT ![c] = Throw(@, "network error")]
    /\ UNCHANGED <<world, deployerVars, deployVars, externals, trace>>

Configurable(w) == {a \in DOMAIN w.k : w.k[a].kind \in {"mailbox", "proxy"}}
OfKind(w, kind) == {a \in DOMAIN w.k : w.k[a].kind = kind}

\* another deployer changes the owner, the module or the hook of a contract
\* while chain c's callback is inside a handler
External(c) ==
    /\ cb[c].st = "running" /\ cb[c].h # ""
    /\ externals < MaxExternal
    /\ externals' = externals + 1
    /\ \E a \in Configurable(world[c]) :
         \/ \E o \in {Signer, Other} \ {world[c].k[a].owner} :
              world' = [world EXCEPT ![c].k[a].owner = o]
         \/ \E m \in OfKind(world[c], "ism") \ {world[c].k[a].ism} :
              world' = [world EXCEPT ![c].k[a].ism = m]
         \/ \E m \in OfKind(world[c], "hook") \ {world[c].k[a].hook} :
              world' = [world EXCEPT ![c].k[a].hook = m]
    /\ UNCHANGED <<deployerVars, deployVars, faults, cb, trace>>

(***************************************************************************)
(* Direct calls of the reconciliation handlers (they are protected methods *)
(* that subclasses call on contracts of their own).                        *)
(***************************************************************************)
call_configureIsm(c) ==
    /\ At(c, "call")
    /\ \E cfg \in {IsmLiteral(a) : a \in OfKind(world[c], "ism")}
                  \cup {IsmStructural(world[c].k[a].spec) :
                          a \in OfKind(world[c], "ism")} :
         cb' = [cb EXCEPT ![c] =
                  Call(@, "configureIsm", IsmFrame(cb[c].l.mailbox, cfg), "called")]
    /\ UNCHANGED <<world, deployerVars, deployVars, envVars, trace>>

call_configureHook(c) ==
    /\ At(c, "call")
    /\ \E targetHook \in OfKind(world[c], "hook") :
         cb' = [cb EXCEPT ![c] =
                  Call(@, "configureHook",
                       HookFrame(cb[c].l.mailbox, targetHook, "hook"), "called")]
    /\ UNCHANGED <<world, deployerVars, deployVars, envVars, trace>>

call_transferOwnership(c) ==
    /\ At(c, "call")
    /\ cb' = [cb EXCEPT ![c] =
                Call(@, "transferOwnershipOfContracts", Frame0, "called")]
    /\ UNCHANGED <<world, deployerVars, deployVars, envVars, trace>>

call_changeAdmin(c) ==
    /\ At(c, "call")
    /\ \E admin \in OfKind(world[c], "proxyAdmin") \cup {Signer, Other} :
         cb' = [cb EXCEPT ![c] =
                  Call(@, "changeAdmin", AdminFrame(cb[c].l.mailbox, admin),
                       "called")]
    /\ UNCHANGED <<world, deployerVars, deployVars, envVars, trace>>

call_upgradeAndInitialize(c) ==
    /\ At(c, "call")
    /\ \E implementation \in OfKind(world[c], "mailbox") :
         cb' = [cb EXCEPT ![c] =
                  Call(@, "upgradeAndInitialize",
                       AdminFrame(cb[c].l.mailbox, implementation), "called")]
    /\ UNCHANGED <<world, deployerVars, deployVars, envVars, trace>>

\* deployContractFromFactory is public: a caller hands it a factory and a
\* name, a first time or after a call of it returned
call_deployContractFromFactory(c) ==
    /\ At(c, "call") \/ (At(c, "called") /\ Events("readCache") # {})
    /\ Cardinality(Events("readCache")) < MaxCalls
    /\ \E contractName \in {"proxyAdmin", "mailbox"} :
         cb' = [cb EXCEPT ![c] =
                  Call(@, "deployContractFromFactory",
                       DcfFrame(contractName, NewContract(contractName, Signer)),
                       "called")]
    /\ UNCHANGED <<world, deployerVars, deployVars, envVars, trace>>

call_returned(c) ==
    /\ At(c, "called")
    /\ cb' = [cb EXCEPT ![c].st = "done"]
    /\ UNCHANGED <<world, deployerVars, deployVars, envVars, trace>>

(***************************************************************************)
(* Initial states.                                                         *)
(***************************************************************************)
EmptyWorld ==
    [k |-> [a \in {} |-> NewContract("none", AddressZero)], inert |-> FALSE]

EmptyLedger == [s \in Slots |-> Absent]

\* a chain another run deployed to: a proxyAdmin, a mailbox behind its proxy,
\* initialized, with a module satisfying spec and two hooks of its own
ExistingWorld(owner, spec, inert) ==
    LET F == FirstContract
    IN [k |-> (F :> NewContract("proxyAdmin", owner))
              @@ (F + 1 :> NewContract("mailbox", AddressZero))
              @@ (F + 2 :> [NewProxy(F + 1, F) EXCEPT
                               !.init = TRUE, !.owner = owner, !.ism = F + 3,
                               !.hook = F + 4, !.req = F + 5])
              @@ (F + 3 :> NewIsm(spec))
              @@ (F + 4 :> NewContract("hook", owner))
              @@ (F + 5 :> NewContract("hook", owner)),
        inert |-> inert]

\* the ledger that run persisted: the proxyAdmin and the mailbox, with or
\* without the two hooks
ExistingLedger(hooks) ==
    [EmptyLedger EXCEPT !["proxyAdmin"] = FirstContract,
                        !["mailbox"] = FirstContract + 2,
                        !["merkleTreeHook"] =
                            IF hooks THEN FirstContract + 4 ELSE Absent,
                        !["protocolFee"] =
                            IF hooks THEN FirstContract + 5 ELSE Absent]

\* a client contract with a module and a hook, and a second module and hook
ClientWorld(owner) ==
    LET F == FirstContract
    IN [k |-> (F :> [NewContract("mailbox", owner) EXCEPT
                        !.init = TRUE, !.ism = F + 1, !.hook = F + 3])
              @@ (F + 1 :> NewIsm(1)) @@ (F + 2 :> NewIsm(2))
              @@ (F + 3 :> NewContract("hook", owner))
              @@ (F + 4 :> NewContract("hook", owner)),
        inert |-> FALSE]

\* a mailbox behind a proxy whose admin is an account or the first of two
\* ProxyAdmin contracts, and a second implementation
ProxyWorld(admin, owner) ==
    LET F == FirstContract
    IN [k |-> (F :> NewContract("proxyAdmin", owner))
              @@ (F + 1 :> NewContract("mailbox", AddressZero))
              @@ (F + 2 :> [NewProxy(F + 1, admin) EXCEPT
                               !.init = TRUE, !.owner = owner])
              @@ (F + 3 :> NewContract("mailbox", AddressZero))
              @@ (F + 4 :> NewContract("proxyAdmin", owner)),
        inert |-> FALSE]

Config(owner, upgrade) ==
    [owner |-> owner,
     ownerOverrides |-> [n \in {Ownables[i] : i \in 1..Len(Ownables)} |-> Absent],
     defaultIsm |-> IsmStructural(1), upgrade |-> upgrade, remove |-> FALSE]

\* what deploy() may find: a fresh chain or an existing one, and a ledger
\* whose other entries are missing or (zero) hold the zero address
Priors ==
    {p \in [existing : BOOLEAN, owner : {Signer, Other}, spec : {1, 2},
            inert : BOOLEAN, hooks : BOOLEAN, zero : BOOLEAN] :
        /\ ~p.existing => (p.owner = Signer /\ p.spec = 1 /\ ~p.inert /\ ~p.hooks)
        /\ p.inert => (p.owner = Signer /\ p.spec = 1 /\ ~p.hooks)
        /\ p.zero => (p.owner = Signer /\ p.spec = 1 /\ ~p.inert /\ ~p.hooks)}

WorldOf(prior) ==
    IF prior.existing THEN ExistingWorld(prior.owner, prior.spec, prior.inert)
    ELSE EmptyWorld
LedgerOf(prior) ==
    LET ledger == IF prior.existing THEN ExistingLedger(prior.hooks)
                  ELSE EmptyLedger
    IN [s \in Slots |-> IF prior.zero /\ ledger[s] = Absent THEN AddressZero
                        ELSE ledger[s]]

InitCommon ==
    /\ deployedContracts = [c \in Chains |-> [s \in DeployedSlots |-> Absent]]
    /\ verificationInputs = [c \in Chains |-> <<>>]
    /\ startingBlockNumbers = [c \in Chains |-> 0]
    /\ chainIdx = 1
    /\ deployError = ""
    /\ trace = <<>>
    /\ past = <<>>
    /\ faults = 0
    /\ externals = 0

\* the configured default module: a structural specification, or the
\* address of a module of another chain, which holds no code on this one
DefaultIsms == {IsmStructural(1), IsmLiteral(Other)}

\* a fresh chain, or an existing one whose module is the configured one, with
\* the ledger deploy() left
PlainPrior(prior) ==
    ~prior.zero /\ ~prior.inert /\ ~prior.hooks /\ prior.spec = 1

\* deploy() on one chain: a structural module over every prior state, upgrade
\* parameters or a literal module (with the signer as owner) over the plain
\* ones
Init ==
    /\ InitCommon
    /\ recoverVerificationInputs = FALSE
    /\ targetChains = <<1>>
    /\ deployPc = "loop"
    /\ cb = [c \in Chains |-> Idle]
    /\ \E prior \in Priors, owner \in {Signer, Other}, upgrade \in BOOLEAN,
          defaultIsm \in DefaultIsms :
         /\ upgrade => ~defaultIsm.lit
         /\ (upgrade \/ defaultIsm.lit) => PlainPrior(prior)
         /\ defaultIsm.lit => owner = Signer
         /\ world = [c \in Chains |-> IF c = 1 THEN WorldOf(prior) ELSE EmptyWorld]
         /\ cachedAddresses =
                [c \in Chains |-> IF c = 1 THEN LedgerOf(prior) ELSE EmptyLedger]
         /\ configMap = [c \in Chains |->
                            [Config(owner, upgrade) EXCEPT
                                !.defaultIsm = defaultIsm]]

\* deploy() on three chains: a fresh chain with upgrade parameters, a fresh
\* chain, which may be configured to be removed, and a chain whose mailbox
\* exists
BatchPrior(c) ==
    IF c = 3
    THEN [existing |-> TRUE, owner |-> Signer, spec |-> 2, inert |-> FALSE,
          hooks |-> FALSE, zero |-> FALSE]
    ELSE [existing |-> FALSE, owner |-> Signer, spec |-> 1, inert |-> FALSE,
          hooks |-> FALSE, zero |-> FALSE]

\* the ledger a caller seeds for chain c: what LedgerOf gives, or (partial)
\* that of the existing chain without its proxyAdmin entry
BatchLedger(c, partial) ==
    IF partial /\ BatchPrior(c).existing
    THEN [LedgerOf(BatchPrior(c)) EXCEPT !["proxyAdmin"] = Absent]
    ELSE LedgerOf(BatchPrior(c))

\* the configurations carry no owner override, or the caller's override of
\* the owner of the proxyAdmin or of the mailbox
InitBatch ==
    /\ InitCommon
    /\ recoverVerificationInputs = FALSE
    /\ targetChains = <<1, 2, 3>>
    /\ deployPc = "loop"
    /\ cb = [c \in Chains |-> Idle]
    /\ world = [c \in Chains |-> WorldOf(BatchPrior(c))]
    /\ \E remove \in BOOLEAN, partial \in BOOLEAN,
          overridden \in {"", "proxyAdmin", "mailbox"} :
         /\ partial => overridden = ""
         /\ cachedAddresses = [c \in Chains |-> BatchLedger(c, partial)]
         /\ configMap = [c \in Chains |->
                            [Config(Other, c = 1) EXCEPT
                                !.remove = remove /\ c = 2,
                                !.ownerOverrides =
                                    [n \in DOMAIN @ |->
                                        IF n = overridden THEN Signer
                                        ELSE Absent]]]

\* one direct call of a reconciliation handler on a client contract
InitRecon ==
    /\ InitCommon
    /\ recoverVerificationInputs = FALSE
    /\ targetChains = <<1>>
    /\ deployPc = "call"
    /\ cb = [c \in Chains |->
               IF c = 1 THEN [Started("call") EXCEPT !.l.mailbox = FirstContract]
               ELSE Idle]
    /\ cachedAddresses = [c \in Chains |-> EmptyLedger]
    /\ \E owner \in {Signer, Other}, target \in {Signer, Other} :
         /\ world = [c \in Chains |->
                       IF c = 1 THEN ClientWorld(owner) ELSE EmptyWorld]
         /\ configMap = [c \in Chains |-> Config(target, FALSE)]

\* the ledgers a caller seeds a deployer with over ProxyWorld: none, the
\* proxyAdmin and the mailbox proxy, or the proxyAdmin and the bare mailbox
\* implementation
ProxyLedgers ==
    {EmptyLedger,
     [EmptyLedger EXCEPT !["proxyAdmin"] = FirstContract,
                         !["mailbox"] = FirstContract + 2],
     [EmptyLedger EXCEPT !["proxyAdmin"] = FirstContract,
                         !["mailbox"] = FirstContract + 1]}

\* one direct call of changeAdmin or upgradeAndInitialize on a proxy, or
\* direct calls of deployContractFromFactory, on a deployer built with or
\* without artifact recovery (constructor, line 76)
InitProxy ==
    /\ InitCommon
    /\ recoverVerificationInputs \in BOOLEAN
    /\ targetChains = <<1>>
    /\ deployPc = "call"
    /\ cb = [c \in Chains |->
               IF c = 1
               THEN [Started("call") EXCEPT !.l.mailbox = FirstContract + 2]
               ELSE Idle]
    /\ \E ledger \in ProxyLedgers :
           cachedAddresses = [c \in Chains |->
                                 IF c = 1 THEN ledger ELSE EmptyLedger]
    /\ configMap = [c \in Chains |-> Config(Signer, FALSE)]
    /\ \E admin \in {FirstContract, Signer, Other}, owner \in {Signer, Other} :
         world = [c \in Chains |->
                    IF c = 1 THEN ProxyWorld(admin, owner) ELSE EmptyWorld]

(***************************************************************************)
(* Next-state relations and specifications.                                *)
(***************************************************************************)
Reconcile(c) ==
    \/ configureHook_read(c) \/ configureHook_runIf(c)
    \/ configureHook_verify(c)
    \/ configureIsm_read(c) \/ configureIsm_runIf(c)
    \/ configureIsm_verify(c)
    \/ transferOwnership_next(c) \/ transferOwnership_runIf(c)
    \/ transferOwnership_sent(c)
    \/ runIfOwner(c) \/ txIncluded(c)

DeployContracts(c) ==
    \/ dc_proxyAdmin(c) \/ dm_deployProxiedContract(c) \/ dpc_deployProxy(c)
    \/ dpc_writeCache(c) \/ dm_defaultIsm(c) \/ dm_deployIsm(c)
    \/ deployHook_start(c) \/ deployHook_done(c) \/ dm_initialize(c)
    \/ dm_configure(c) \/ dc_deployValidatorAnnounce(c) \/ dc_upgrade(c)
    \/ dc_timelock(c) \/ deployTestRecipient_start(c)
    \/ deployTestRecipient_done(c) \/ dc_transferOwnership(c) \/ dc_return(c)
    \/ dcf_readCache(c) \/ dcf_deployed(c)

Deploy == deploy_next \/ deploy_getBlockNumber \/ deploy_settled

Next ==
    \/ Deploy
    \/ Redeploy
    \/ \E c \in Chains : DeployContracts(c) \/ Reconcile(c) \/ ClientError(c)

NextBatch ==
    \/ Deploy
    \/ runWithTimeout_timeout
    \/ \E c \in Chains : DeployContracts(c) \/ Reconcile(c) \/ ClientError(c)

NextRecon ==
    \E c \in Chains :
        \/ call_configureIsm(c) \/ call_configureHook(c)
        \/ call_transferOwnership(c) \/ call_returned(c)
        \/ Reconcile(c) \/ configureIsm_deployed(c) \/ External(c)

NextProxy ==
    \E c \in Chains :
        \/ call_changeAdmin(c) \/ call_upgradeAndInitialize(c)
        \/ call_deployContractFromFactory(c) \/ call_returned(c)
        \/ dcf_readCache(c) \/ dcf_deployed(c)
        \/ changeAdmin_read(c) \/ upgradeAndInitialize_read(c)
        \/ runIfAdmin_proxyAdmin(c) \/ runIfAdmin_getCode(c)
        \/ runIfAdmin_owner(c) \/ runIfAdmin_runIf(c) \/ runIfAdmin_sent(c)
        \/ txIncluded(c)

Spec == Init /\ [][Next]_vars
SpecBatch == InitBatch /\ [][NextBatch]_vars
SpecRecon == InitRecon /\ [][NextRecon]_vars
SpecProxy == InitProxy /\ [][NextProxy]_vars

(***************************************************************************)
(* Properties.                                                             *)
(***************************************************************************)
\* events i and j of this run are about the same contract
SameContract(i, j) ==
    trace[i].chain = trace[j].chain /\ trace[i].to = trace[j].to

\* the set and transferOwnership transactions submitted so far
Gated == {i \in Events("tx") : trace[i].kind \in OwnerGated}

\* the reads after a write that did not return the target
Mismatches ==
    {i \in Events("reread") : ~eqAddress(trace[i].val, trace[i].want)}

\* C1 (batch resilience): when chain 2 of the batch <<1, 2, 3>> fails with a
\* fatal error that is no timeout and the other chains do not fail, the run
\* still returns, with the contracts of chains 1 and 3.
C1_BatchResilience ==
    (/\ deployPc \in {"returned", "rejected"}
     /\ Events("timeout") = {}
     /\ cb[1].st = "done"
     /\ cb[2].st = "failed" /\ cb[2].error = "network error")
    => /\ deployPc = "returned"
       /\ cb[3].st = "done"
       /\ deployedContracts[1]["mailbox"] # Absent
       /\ deployedContracts[3]["mailbox"] # Absent

\* C2 (idempotent reuse): after a run that deployed the chain and returned,
\* the next run, with the ledger carried over, the same configuration and
\* nobody else touching the chain, submits no transaction at all.
C2_IdempotentReuse ==
    (/\ runs > 1
     /\ past[runs - 1].returned /\ "proxy" \in past[runs - 1].deployed)
    => Events("tx") = {}

\* C3 (no double proxy): no proxy has a proxy as its implementation; when
\* the address handed to the proxy step is a proxy, that address is what the
\* step returns and binds, and the run deploys no proxy on that chain.
C3_NoDoubleProxy ==
    \A c \in Chains :
        /\ \A p \in DOMAIN world[c].k :
               isProxy(world[c], p) => ~isProxy(world[c], world[c].k[p].impl)
        /\ (cb[c].l.impl # Absent /\ isProxy(world[c], cb[c].l.impl))
               => /\ cb[c].l.mailbox = cb[c].l.impl
                  /\ cachedAddresses[c]["mailbox"] = cb[c].l.impl
                  /\ \A i \in Events("tx") :
                         trace[i].chain = c => trace[i].what # "proxy"

\* a second run resumes a run that deployed the proxy and failed later: the
\* ledger hands the proxy to the proxy step, which returns it
C3_ProxyReused ==
    /\ runs = 2 /\ ~past[1].returned /\ "proxy" \in past[1].deployed
    /\ cb[1].l.impl # Absent /\ isProxy(world[1], cb[1].l.impl)
    /\ cb[1].l.mailbox = cb[1].l.impl
    /\ cb[1].st = "done"

\* C4 (authority gating): while the signer is not the owner of the contract,
\* a reconciliation submits no transaction, neither a set call nor a
\* deployment, and raises no error.
C4_AuthorityGating ==
    (externals = 0 /\ ~eqAddress(ownerOf(world[1], FirstContract), Signer))
    => /\ Events("tx") = {}
       /\ cb[1].st # "failed"

\* C5 (post-write verification): when the read after a set transaction does
\* not return the target, the handler raises its mismatch error, the error
\* ends the chain's callback and deploy() rejects with it: that run never
\* returns.
C5_PostWriteVerification ==
    \A i \in Mismatches :
        LET e == trace[i]
            me == cb[e.chain]
        IN /\ me.st = "failed"
           /\ me.error = IF e.kind = "ism" THEN "Set ISM failed"
                         ELSE "Set hook failed"
           /\ deployPc \in {"await", "rejected"}
           /\ deployPc = "rejected" => deployError = me.error
           /\ Events("returned") = {}

\* a set transaction was included, the read after it returned another value
\* and deploy() rejected
C5_MismatchRaised ==
    \E i \in Mismatches :
        /\ deployPc = "rejected"
        /\ \E j \in Gated : j < i /\ SameContract(i, j)

C7_Ordering ==
    \A i, j \in Events("reconcile") :
        SameContract(i, j)
        => /\ (trace[i].kind = "ism" /\ trace[j].kind = "hook") => i < j
           /\ (trace[i].kind \in {"ism", "hook"} /\ trace[j].kind = "owner")
                  => i < j

\* C7 as the code orders it: on one contract in one run, every hook
\* reconciliation starts before the module reconciliation, and every
\* ownership transfer starts after both.
C7_OrderingAmended ==
    \A i, j \in Events("reconcile") :
        SameContract(i, j)
        => /\ (trace[i].kind = "hook" /\ trace[j].kind = "ism") => i < j
           /\ (trace[i].kind \in {"ism", "hook"} /\ trace[j].kind = "owner")
                  => i < j

\* one run reconciled hooks, module and owner of one contract
C7_AllThree ==
    \E i, j, k \in Events("reconcile") :
        /\ SameContract(i, j) /\ SameContract(j, k)
        /\ trace[i].kind = "hook" /\ trace[j].kind = "ism"
        /\ trace[k].kind = "owner"

\* C8 (external actor): with another deployer changing the contract during a
\* reconciliation, the step converges, is skipped or fails with the
\* post-write mismatch error, and every set or transferOwnership transaction
\* is submitted while the signer is the owner.
C8_ExternalActor ==
    /\ \A i \in Gated : trace[i].auth
    /\ \A c \in Chains :
           cb[c].st = "failed"
               => cb[c].error \in {"Set hook failed", "Set ISM failed"}

\* C8 as the code behaves: a set or transferOwnership transaction is
\* submitted only after the step's own read of the owner returned the
\* signer; the step converges, is skipped, fails with the post-write
\* mismatch error or fails with the error of its transaction, which reverts
\* only when the owner was changed after that read.
C8_ExternalActorAmended ==
    /\ \A i \in Gated : eqAddress(trace[i].read, Signer)
    /\ \A c \in Chains :
           /\ cb[c].st = "failed"
                  => cb[c].error \in {"Set hook failed", "Set ISM failed",
                                      "transaction reverted"}
           /\ cb[c].error = "transaction reverted"
                  => /\ externals > 0
                     /\ \E i \in Gated : trace[i].chain = c
           /\ cb[c].error \in {"Set hook failed", "Set ISM failed"}
                  => \E i \in Mismatches : trace[i].chain = c
           /\ cb[c].st = "done"
                  => \A i \in Events("reread") :
                         trace[i].chain = c
                             => eqAddress(trace[i].val, trace[i].want)

\* the owner was changed between the step's read of it and the submission:
\* the transaction went out while the signer was not the owner, and reverted
C8_RevertedAfterOwnerChange ==
    /\ cb[1].st = "failed" /\ cb[1].error = "transaction reverted"
    /\ \E i \in Gated : eqAddress(trace[i].read, Signer) /\ ~trace[i].auth

\* C9 (timeout): once the budget of a chain's callback has run out, deploy()
\* has rejected with the timeout error, and the callback does nothing more:
\* it submits no transaction, starts no step and adds no contracts.
C9_TimeoutCancels ==
    \A i \in Events("timeout") :
        LET c == trace[i].chain
        IN /\ deployPc = "rejected" /\ deployError = "timeout"
           /\ \A j \in (i + 1)..Len(trace) : trace[j].chain # c
           /\ cb[c].st # "done"
           /\ deployedContracts[c]["mailbox"] = Absent

\* deploy() or the callback it started is at work on chain c
Busy(c) ==
    \/ cb[c].st = "running"
    \/ /\ deployPc \in {"getBlockNumber", "await"}
       /\ chainIdx <= Len(targetChains) /\ Chain = c

\* C10 (sequential chains): no two chains are at work together, a chain is
\* at work only when the callbacks of all chains before it are done, and a
\* callback that awaits a transaction takes no step until the transaction
\* is included.
C10_Sequential ==
    /\ \A c, d \in Chains : (Busy(c) /\ Busy(d)) => c = d
    /\ \A j \in 1..Len(targetChains) :
           Busy(targetChains[j])
               => \A i \in 1..(j - 1) : cb[targetChains[i]].st = "done"
    /\ \A c \in Chains :
           cb[c].pending # NoTx
               => /\ cb[c].st = "running"
                  /\ \E i \in Events("tx") :
                         /\ trace[i].chain = c
                         /\ \A j \in (i + 1)..Len(trace) :
                                trace[j].chain = c => trace[j].ev = "timeout"

\* chain 1 is done and the callback of chain 2 awaits a transaction
C10_SecondChainAwaits ==
    /\ cb[1].st = "done" /\ cb[2].st = "running" /\ cb[2].pending # NoTx
    /\ \A c \in Chains \ {2} : ~Busy(c)

\* the transactions chain c's callback submitted after event i
TxAfter(i) ==
    {j \in Events("tx") : j > i /\ trace[j].chain = trace[i].chain}

\* C11 (runIfAdmin): when the admin address of the proxy hosts code, the
\* indirect action (through the ProxyAdmin contract) runs exactly when the
\* signer is that contract's owner and the direct action never runs; when it
\* hosts no code, the direct action runs exactly when the signer is the
\* admin and the indirect action never runs; at most one action runs, and a
\* mismatch returns without raising.
C11_RunIfAdmin ==
    \A i \in Events("runIfAdmin") :
        LET e == trace[i]
            me == cb[e.chain]
            direct == {j \in TxAfter(i) : trace[j].kind \in DirectKinds}
            indirect == {j \in TxAfter(i) : trace[j].kind \in IndirectKinds}
            returned == me.st = "done" \/ (me.st = "running" /\ me.h = "")
            authorized == IF e.what = "contract" THEN e.auth
                          ELSE eqAddress(e.val, Signer)
        IN /\ Cardinality(TxAfter(i)) <= 1
           /\ TxAfter(i) = direct \cup indirect
           /\ e.what = "contract" => direct = {}
           /\ e.what = "account" => indirect = {}
           /\ TxAfter(i) # {} => authorized
           /\ (returned /\ authorized) => TxAfter(i) # {}
           /\ ~authorized => me.st # "failed"
           /\ \A j \in TxAfter(i) :
                  /\ trace[j].to = IF e.what = "contract" THEN e.val ELSE e.to
                  /\ trace[j].val = e.want

\* the admin is a ProxyAdmin contract the signer owns: the call went through
\* it, and the caller has its result
C11_ThroughProxyAdmin ==
    \E i \in Events("runIfAdmin") :
        /\ trace[i].what = "contract" /\ trace[i].auth
        /\ cb[trace[i].chain].st = "done"
        /\ \E j \in TxAfter(i) : trace[j].kind \in IndirectKinds

\* C16 (unauthorized upgrade surfaced): when upgradeAndInitialize finds
\* another implementation and the signer has no authority over the proxy, no
\* upgrade transaction is submitted, nothing is raised, and what the caller
\* receives differs from what it receives after an upgrade (which is
\* undefined, the handler being void).
C16_UnauthorizedUpgradeSurfaced ==
    \A i \in Events("runIfAdmin") :
        LET e == trace[i]
            me == cb[e.chain]
            authorized == IF e.what = "contract" THEN e.auth
                          ELSE eqAddress(e.val, Signer)
        IN (e.kind = "upgradeAndInitialize" /\ ~authorized)
           => /\ TxAfter(i) = {}
              /\ me.st # "failed"
              /\ me.st = "done" => me.res # Absent

\* the lookups of the ledger that returned a contract
Hits == {i \in Events("readCache") : trace[i].want # Absent}

\* C12 (ledger lookup): the lookup returns a contract only for an entry that
\* is present and not the zero address, and the contract's address is the
\* entry; a missing or zero entry is a miss.  After a hit
\* deployContractFromFactory submits no deployment of that contract and no
\* initialize call; a miss is always followed by a deployment of it.
C12_ReadCache ==
    \A i \in Events("readCache") :
        LET e == trace[i]
            entry == e.val \notin {Absent, AddressZero}
            \* the events of this call: up to the next lookup of the chain
            mine == {j \in (i + 1)..Len(trace) :
                        /\ trace[j].chain = e.chain
                        /\ \A k \in (i + 1)..j :
                               ~(trace[k].ev = "readCache"
                                 /\ trace[k].chain = e.chain)}
        IN /\ i \in Hits <=> entry
           /\ i \in Hits => eqAddress(e.want, e.val)
           /\ i \in Hits
                => \A j \in mine :
                       ~(/\ trace[j].ev = "tx"
                         /\ \/ trace[j].kind = "initialize"
                            \/ trace[j].kind = "deploy" /\ trace[j].what = e.kind)
           /\ i \notin Hits
                => /\ i + 1 \in mine
                   /\ trace[i + 1].ev = "tx" /\ trace[i + 1].kind = "deploy"
                   /\ trace[i + 1].what = e.kind

\* one run met an entry holding the zero address, deployed the contract, and
\* met an entry holding a contract, which it reused
C12_ZeroThenHit ==
    /\ cb[1].st = "done"
    /\ \E i \in Events("readCache") \ Hits : trace[i].val = AddressZero
    /\ Hits # {}

\* C14 (only duplicate initialization is reinterpreted): when the mailbox's
\* initialize call fails for another reason than the mailbox being
\* initialized, the error ends the chain's callback as failed, and no hook
\* or module reconciliation starts after it.
C14_OnlyDuplicateInitialization ==
    \A i \in Events("initializeError") :
        LET e == trace[i]
            me == cb[e.chain]
        IN e.what # "already initialized"
           => /\ me.st = "failed" /\ me.error = e.kind
              /\ \A j \in Events("reconcile") :
                     (j > i /\ trace[j].chain = e.chain)
                         => trace[j].kind \notin {"hook", "ism"}

\* the kinds of contract a deployment of the slot creates
KindsOf(slot) ==
    CASE slot = "mailbox" -> {"mailbox", "proxy"}
      [] slot = "TransparentUpgradeableProxy" -> {"proxy"}
      [] slot = "interchainSecurityModule" -> {"ism"}
      [] slot \in {"merkleTreeHook", "protocolFee"} -> {"hook"}
      [] OTHER -> {slot}

\* the entry of slot was non-zero and is zero or missing after the step
LedgerReset(c, slot) ==
    /\ cachedAddresses[c][slot] \notin {Absent, AddressZero}
    /\ cachedAddresses'[c][slot] \in {Absent, AddressZero}

\* the entry of slot becomes the address of the contract that chain c's
\* callback has just deployed for it
LedgerDeployed(c, slot) ==
    LET address == cachedAddresses'[c][slot]
    IN /\ address = cb[c].rcpt
       /\ hasCode(world[c], address)
       /\ world[c].k[address].kind \in KindsOf(slot)
       /\ \E i \in Events("tx") :
              /\ trace[i].chain = c /\ trace[i].kind = "deploy"
              /\ trace[i].what = world[c].k[address].kind

\* deployMailbox records the default module it goes on with
LedgerFound(c, slot) ==
    /\ slot = "interchainSecurityModule"
    /\ cb[c].pc = "defaultIsm"
    /\ cachedAddresses'[c][slot] = cb'[c].l.defaultIsm

\* C13 (ledger monotonicity): an entry that holds a non-zero address holds
\* one in every later state, and an entry changes only to the address of a
\* contract just deployed for its slot (seeding happens before the run).
C13_LedgerMonotone ==
    [][\A c \in Chains, slot \in Slots :
           /\ ~LedgerReset(c, slot)
           /\ cachedAddresses'[c][slot] # cachedAddresses[c][slot]
                  => LedgerDeployed(c, slot)]_vars

\* C13 as the code behaves: an entry that holds a non-zero address holds one
\* in every later state, and an entry changes only to the address of a
\* contract just deployed for its slot or, for interchainSecurityModule, to
\* the default module deployMailbox goes on with: the one found on the
\* mailbox to match the configuration, or the configured address.
C13_LedgerMonotoneAmended ==
    [][\A c \in Chains, slot \in Slots :
           /\ ~LedgerReset(c, slot)
           /\ cachedAddresses'[c][slot] # cachedAddresses[c][slot]
                  => LedgerDeployed(c, slot) \/ LedgerFound(c, slot)]_vars

\* a run ended that bound a slot to a contract it deployed and recorded a
\* module it deployed no contract for, the other entries being kept
C13_FoundAndDeployed ==
    /\ cb[1].st = "done"
    /\ cachedAddresses[1]["interchainSecurityModule"] \notin {Absent, AddressZero}
    /\ \A i \in Events("tx") : trace[i].what # "ism"
    /\ \E i \in Events("tx") : trace[i].what = "validatorAnnounce"
    /\ \A slot \in {"proxyAdmin", "mailbox", "validatorAnnounce"} :
           cachedAddresses[1][slot] \notin {Absent, AddressZero}

\* C15 (custom hook): when configureHook read a hook other than the target
\* and an owner other than the signer, it returns with the target recorded
\* under customHook and no transaction sent; when the hooks were equal, or a
\* set transaction went out, the call records no customHook.
C15_CustomHook ==
    \A i \in Events("reconcile") :
        LET e == trace[i]
            me == cb[e.chain]
            returned == me.st = "done" \/ (me.st = "running" /\ me.h = "")
            customHook == deployedContracts[e.chain]["customHook"]
        IN e.kind = "hook"
           => /\ (/\ returned /\ ~eqAddress(e.val, e.want)
                  /\ ~eqAddress(me.a.owner, Signer))
                    => /\ eqAddress(customHook, e.want)
                       /\ TxAfter(i) = {}
              /\ (eqAddress(e.val, e.want) \/ TxAfter(i) # {})
                    => customHook = Absent

\* the call returned from an authority mismatch with the target kept
C15_TargetKept ==
    \E i \in Events("reconcile") :
        /\ trace[i].kind = "hook" /\ ~eqAddress(trace[i].val, trace[i].want)
        /\ cb[trace[i].chain].st = "done"
        /\ TxAfter(i) = {}
        /\ deployedContracts[trace[i].chain]["customHook"] = trace[i].want

\* C17 (removed chains): for a chain configured to be removed the callback
\* submits no transaction and changes nothing on the chain, it does not
\* fail, deploy() rejects at most with the timeout of the budget, the
\* chain's entry of the result holds no contract, and the chains after it
\* are deployed when deploy() returns.
C17_RemovedChainSkipped ==
    \A j \in 1..Len(targetChains) :
        LET c == targetChains[j]
        IN configMap[c].remove
           => /\ \A i \in Events("tx") : trace[i].chain # c
              /\ world[c] = WorldOf(BatchPrior(c))
              /\ cachedAddresses[c] = LedgerOf(BatchPrior(c))
              /\ cb[c].st # "failed"
              /\ (deployPc = "rejected" /\ chainIdx = j) => deployError = "timeout"
              /\ \A slot \in DeployedSlots : deployedContracts[c][slot] = Absent
              /\ deployPc = "returned"
                   => \A k \in (j + 1)..Len(targetChains) :
                          /\ cb[targetChains[k]].st = "done"
                          /\ deployedContracts[targetChains[k]]["mailbox"] # Absent

\* deploy() returned from a batch whose second chain is removed: that chain
\* is done without a contract and the third chain is deployed
C17_ThirdChainDeployed ==
    /\ configMap[2].remove /\ deployPc = "returned"
    /\ cb[2].st = "done" /\ deployedContracts[2]["mailbox"] = Absent
    /\ cb[3].st = "done" /\ deployedContracts[3]["mailbox"] # Absent

\* C18 (verification failures): when the verifier raises on a contract
\* deployContractFromFactory has just deployed, the callback does not fail
\* with that error, the contract's verification artifact is in the chain's
\* list, the caller receives the contract, and the caller's binding of the
\* ledger takes place: past the caller's next step the slot holds the
\* contract (the mailbox slot, first bound to the implementation, the proxy).
C18_VerificationNonFatal ==
    \A i \in Events("verifyError") :
        LET e == trace[i]
            c == e.chain
            me == cb[c]
            slot == IF e.kind = "TransparentUpgradeableProxy" THEN "mailbox"
                    ELSE e.kind
            atReturn == /\ me.st = "running" /\ me.h = "" /\ me.pc = e.what
                        /\ i = Len(trace)
            past1 == me.st = "done" \/ (me.st = "running" /\ ~atReturn)
        IN /\ me.error # "verification failed"
           /\ \E n \in 1..Len(verificationInputs[c]) :
                  verificationInputs[c][n] = <<e.kind, e.to>>
           /\ atReturn => me.res = e.to
           /\ past1 => cachedAddresses[c][slot] \in {e.to, me.l.mailbox}
           /\ (past1 /\ slot # "mailbox") => cachedAddresses[c][slot] = e.to

\* the verifier raised on the proxyAdmin; the run went on and returned with
\* the proxyAdmin bound in the ledger and in the result
C18_DeployedDespiteVerifier ==
    \E i \in Events("verifyError") :
        /\ trace[i].kind = "proxyAdmin"
        /\ deployPc = "returned" /\ cb[1].st = "done"
        /\ cachedAddresses[1]["proxyAdmin"] = trace[i].to
        /\ deployedContracts[1]["proxyAdmin"] = trace[i].to

\* C19 (structural module reconciliation): in a configureIsm call with a
\* structural configuration, when the module read from the contract
\* satisfies it the call deploys no module and sends no set transaction; a
\* module is deployed only when the module read does not satisfy it.
C19_DeployOnlyOnMismatch ==
    \A i \in Events("reconcile") :
        LET e == trace[i]
            me == cb[e.chain]
            deployed == {j \in TxAfter(i) : trace[j].kind = "deploy"}
        IN (e.kind = "ism" /\ ~me.a.cfg.lit)
           => /\ me.a.matches => TxAfter(i) = {}
              /\ deployed # {} => ~me.a.matches

\* the phase a callback of deployContracts is in: 0 not started, 1 admin
\* deployment, 2 mailbox deployment (with the module and the hooks it is
\* initialized with), 3 mailbox configuration, 4 deployment of the
\* dependents, 5 ownership transfer, 6 done
PhaseOf(me) ==
    CASE me.st = "idle" -> 0
      [] me.st = "done" -> 6
      [] me.pending.kind = "mailboxInitialize" -> 3
      [] me.pc = "deployContracts" -> 1
      [] me.pc \in {"deployMailbox", "deployProxy", "writeCache", "defaultIsm",
                    "deployIsm", "defaultHook", "requiredHook"} -> 2
      [] me.pc \in {"initialize", "configure"} -> 3
      [] me.pc \in {"deployValidatorAnnounce", "upgrade", "timelock",
                    "deployTestRecipient"} -> 4
      [] OTHER -> 5

\* in the history tr, nothing but the ownership transfer follows a
\* transferOwnership transaction of the same chain
OwnershipLast(tr) ==
    \A i, j \in 1..Len(tr) :
        (/\ i < j /\ tr[i].chain = tr[j].chain
         /\ tr[i].ev = "tx" /\ tr[i].kind = "transfer")
        => \/ tr[j].ev = "tx" /\ tr[j].kind = "transfer"
           \/ tr[j].ev = "reconcile" /\ tr[j].kind = "owner"

OwnerReads(c) ==
    {i \in Events("reconcile") : trace[i].chain = c /\ trace[i].kind = "owner"}
Transfers(c) ==
    {j \in Events("tx") : trace[j].chain = c /\ trace[j].kind = "transfer"}

\* the owner read at i found an owner that differs from the target and is
\* the signer
TransferDue(i) ==
    /\ ~eqAddress(trace[i].val, trace[i].want)
    /\ eqAddress(trace[i].val, Signer)

\* C21 (ownership transfer): every transfer follows an owner read of its
\* contract that found the signer as owner and another target, and no contract
\* gets two; when transferOwnershipOfContracts has returned to deployContracts
\* the owner of every bound ownable was read once, in slot order, against its
\* override if there is one and the global owner otherwise, each read that
\* found the signer and another target has exactly one transfer (before the
\* next read) and no other read has any, and the returned receipts are those
\* of the transfers in slot order.
C21_OwnershipTransfer ==
    \A c \in Chains :
        LET me == cb[c]
            Bound(n) == me.l[n] # Absent
            bound == SelectSeq(Ownables, Bound)
            ReadsOf(a) == {i \in OwnerReads(c) : trace[i].to = a}
            TransfersOf(a) == {j \in Transfers(c) : trace[j].to = a}
            ReadOf(a) == CHOOSE i \in ReadsOf(a) : TRUE
            Due(a) == TransferDue(ReadOf(a))
            addrs == [k \in 1..Len(bound) |-> me.l[bound[k]]]
        IN /\ \A j \in Transfers(c) :
                  /\ \E i \in ReadsOf(trace[j].to) : i < j /\ TransferDue(i)
                  /\ Cardinality(TransfersOf(trace[j].to)) = 1
           /\ (me.st \in {"running", "done"} /\ me.pc = "return" /\ ~me.l.removed)
                 => /\ Cardinality(OwnerReads(c)) = Len(bound)
                    /\ \A k \in 1..Len(bound) :
                          LET n == bound[k]
                              override == configMap[c].ownerOverrides[n]
                          IN /\ Cardinality(ReadsOf(addrs[k])) = 1
                             /\ trace[ReadOf(addrs[k])].want =
                                    IF override # Absent THEN override
                                    ELSE configMap[c].owner
                             /\ k < Len(bound)
                                    => ReadOf(addrs[k]) < ReadOf(addrs[k + 1])
                             /\ Cardinality(TransfersOf(addrs[k])) =
                                    IF Due(addrs[k]) THEN 1 ELSE 0
                             /\ \A j \in TransfersOf(addrs[k]) :
                                    /\ ReadOf(addrs[k]) < j
                                    /\ trace[j].val = trace[ReadOf(addrs[k])].want
                                    /\ k < Len(bound) => j < ReadOf(addrs[k + 1])
                    /\ me.a.receipts = SelectSeq(addrs, Due)
                    /\ me.res = Len(me.a.receipts)

\* a call returned two receipts and skipped a contract another account owns
C21_TransfersAndSkip ==
    \E c \in Chains :
        /\ cb[c].st = "running" /\ cb[c].pc = "return"
        /\ Len(cb[c].a.receipts) >= 2
        /\ \E i \in OwnerReads(c) :
               /\ ~eqAddress(trace[i].val, trace[i].want)
               /\ ~eqAddress(trace[i].val, Signer)

\* C22 (the slot is bound to the proxy): once deployProxiedContract has
\* returned the mailbox, the ledger entry of the mailbox slot is the returned
\* address and that address is a proxy contract; when the implementation it
\* deployed or recovered is no proxy, the returned address is another one, a
\* proxy of that implementation.
C22_SlotBoundToProxy ==
    \A c \in Chains :
        LET me == cb[c]
            w == world[c]
        IN me.l.mailbox # Absent
           => /\ cachedAddresses[c]["mailbox"] = me.l.mailbox
              /\ isProxy(w, me.l.mailbox)
              /\ w.k[me.l.mailbox].kind = "proxy"
              /\ ~isProxy(w, me.l.impl)
                     => /\ me.l.mailbox # me.l.impl
                        /\ w.k[me.l.mailbox].impl = me.l.impl

\* deployProxiedContract has just returned the proxy of an implementation it
\* deployed in this run
C22_FreshImplementationBound ==
    /\ At(1, "defaultIsm")
    /\ cb[1].l.mailbox # Absent /\ cb[1].l.mailbox # cb[1].l.impl
    /\ \E i, j \in Events("tx") :
           /\ i < j
           /\ trace[i].kind = "deploy" /\ trace[i].what = "mailbox"
           /\ trace[j].kind = "deploy" /\ trace[j].what = "proxy"

\* what a step appends to the artifact list of chain c
Appended(c) ==
    SubSeq(verificationInputs'[c], Len(verificationInputs[c]) + 1,
           Len(verificationInputs'[c]))

\* C23 (artifact recovery): every step leaves the artifact list of a chain as
\* it was or appends to it; the step in which deployContractFromFactory
\* recovers a contract from the ledger appends, on a deployer built with
\* artifact recovery, the artifact of the contract's name at the proxy's
\* implementation followed by the TransparentUpgradeableProxy artifact at the
\* cached address when that address is a proxy, one artifact of the contract's
\* name at the cached address when it is not, and nothing on a deployer built
\* without.
C23_ArtifactRecovery ==
    [][\A c \in Chains :
           LET old == verificationInputs[c]
               new == verificationInputs'[c]
               last == trace'[Len(trace')]
               recovered == /\ In(c, "deployContractFromFactory", "start")
                            /\ Len(trace') = Len(trace) + 1
                            /\ last.ev = "readCache" /\ last.chain = c
                            /\ last.want # Absent
               cached == last.want
               name == cb[c].a.slot
           IN /\ Len(new) >= Len(old)
              /\ SubSeq(new, 1, Len(old)) = old
              /\ recovered =>
                    /\ cached = cachedAddresses[c][name]
                    /\ cb'[c].res = cached
                    /\ Appended(c) =
                          IF ~recoverVerificationInputs THEN <<>>
                          ELSE IF isProxy(world[c], cached)
                          THEN <<(<<name, world[c].k[cached].impl>>),
                                 (<<"TransparentUpgradeableProxy", cached>>)>>
                          ELSE <<(<<name, cached>>)>>]_vars

\* artifact recovery added the implementation and the proxy artifact of a
\* cached proxy behind the artifact of an earlier call
C23_ProxyRecoveredSecond ==
    /\ recoverVerificationInputs
    /\ \E n \in 2..(Len(verificationInputs[1]) - 1) :
           LET proxy == verificationInputs[1][n + 1][2]
           IN /\ verificationInputs[1][n + 1][1] = "TransparentUpgradeableProxy"
              /\ isProxy(world[1], proxy)
              /\ verificationInputs[1][n] =
                     <<"mailbox", world[1].k[proxy].impl>>
              /\ cachedAddresses[1]["mailbox"] = proxy

\* the deployments of a kind of contract chain c's callback submitted in this
\* run
DeploymentsOf(c, what) ==
    {i \in Events("tx") : /\ trace[i].chain = c /\ trace[i].kind = "deploy"
                          /\ trace[i].what = what}

\* C24 (resume after a partial proxied deployment): in a run after one that
\* deployed the implementation and stopped, when deployProxiedContract found
\* in the ledger's mailbox slot a contract that is no proxy, the run deploys
\* no implementation and at most one proxy, and once deployProxiedContract has
\* returned it has deployed exactly one proxy, which is the returned contract
\* and has the address the ledger held as its implementation.
C24_ResumePartialProxied ==
    \A c \in Chains :
        \A i \in Events("readCache") :
            LET recorded == trace[i].val
                me == cb[c]
                w == world[c]
            IN (/\ trace[i].chain = c /\ trace[i].kind = "mailbox"
                /\ \E r \in 1..Len(past) :
                       ~past[r].returned /\ "mailbox" \in past[r].deployed
                /\ recorded \notin {Absent, AddressZero}
                /\ ~isProxy(w, recorded))
               => /\ DeploymentsOf(c, "mailbox") = {}
                  /\ Cardinality(DeploymentsOf(c, "proxy")) <= 1
                  /\ me.l.mailbox # Absent
                         => /\ Cardinality(DeploymentsOf(c, "proxy")) = 1
                            /\ isProxy(w, me.l.mailbox)
                            /\ w.k[me.l.mailbox].impl = recorded

\* the first run stopped between the implementation and the submission of
\* its proxy, and the second has deployed the proxy over the recorded
\* implementation
C24_ProxyOverRecorded ==
    /\ runs = 2 /\ ~past[1].returned
    /\ "mailbox" \in past[1].deployed /\ "proxy" \notin past[1].deployed
    /\ cb[1].l.mailbox # Absent /\ cb[1].l.impl # cb[1].l.mailbox
    /\ isProxy(world[1], cb[1].l.mailbox)
    /\ DeploymentsOf(1, "mailbox") = {}
    /\ \E i \in Events("readCache") :
           /\ trace[i].kind = "mailbox"
           /\ trace[i].val = world[1].k[cb[1].l.mailbox].impl

\* C25 (proxy admin consistency): when deployContracts has completed for a
\* chain that is not removed, the admin of the mailbox proxy it returns is
\* the proxyAdmin contract it returns.
C25_ProxyAdminConsistency ==
    \A c \in Chains :
        (cb[c].st = "done" /\ ~cb[c].l.removed)
        => eqAddress(proxyAdmin(world[c], cb[c].l.mailbox), cb[c].l.proxyAdmin)

\* C26 (the timelock takes precedence): a configuration changes only where
\* deployContracts, for a configuration with upgrade parameters, sets the
\* proxyAdmin's owner override to the timelock it has just deployed, every
\* other field and override staying as the caller gave it; and the step of
\* the ownership transfer that reads an owner compares it, for the proxyAdmin
\* of such a configuration, with the timelock deployed in this run, and for
\* every other contract with the caller's override if there is one and the
\* global owner otherwise.
C26_TimelockPrecedence ==
    [][\A c \in Chains :
           LET me == cb[c]
               last == trace'[Len(trace')]
               name == Ownables[me.a.idx]
               override == configMap[c].ownerOverrides[name]
               timelocks == {i \in Events("tx") :
                                /\ trace[i].chain = c /\ trace[i].kind = "deploy"
                                /\ trace[i].what = "timelock"}
           IN /\ configMap'[c] # configMap[c]
                    => /\ configMap[c].upgrade
                       /\ timelocks # {}
                       /\ hasCode(world[c], me.rcpt)
                       /\ world[c].k[me.rcpt].kind = "timelock"
                       /\ cb'[c].l.timelock = me.rcpt
                       /\ configMap'[c] =
                              [configMap[c] EXCEPT
                                  !.ownerOverrides.proxyAdmin = me.rcpt]
              /\ (/\ In(c, "transferOwnershipOfContracts", "start")
                  /\ Len(trace') = Len(trace) + 1
                  /\ last.ev = "reconcile" /\ last.kind = "owner")
                    => /\ last.to = me.l[name]
                       /\ last.want =
                              IF configMap[c].upgrade /\ name = "proxyAdmin"
                              THEN me.l.timelock
                              ELSE IF override # Absent THEN override
                              ELSE configMap[c].owner
                       /\ (configMap[c].upgrade /\ name = "proxyAdmin")
                              => /\ timelocks # {}
                                 /\ hasCode(world[c], me.l.timelock)
                                 /\ world[c].k[me.l.timelock].kind = "timelock"]_vars

\* with the caller's override of the proxyAdmin's owner in the configurations,
\* the run of the upgradeable chain transfers its proxyAdmin to the timelock
\* it deployed and another contract to the global owner
C26_TimelockOverCallerOverride ==
    /\ configMap[3].ownerOverrides["proxyAdmin"] = Signer
    /\ configMap[1].upgrade
    /\ \E i, j \in Transfers(1) :
           /\ trace[i].to = cb[1].l.proxyAdmin
           /\ trace[i].val = cb[1].l.timelock
           /\ hasCode(world[1], trace[i].val)
           /\ world[1].k[trace[i].val].kind = "timelock"
           /\ trace[j].to # cb[1].l.proxyAdmin
           /\ trace[j].val = configMap[1].owner

====
